---------------------------- MODULE Spec2Model ----------------------------
(***************************************************************************)
(* Client-side E2EE layer of the chat application: the private key vault   *)
(* (lib/crypto/storage.ts), the key-setup flows (KeySetupBanner,           *)
(* ChatWindow, api/auth/setup-keys), sign-out (useAuth), the message       *)
(* cipher (lib/crypto/encryption.ts, lib/crypto/keys.ts) and the two       *)
(* message hooks (useMessagesSimple, useMessages).                         *)
(*                                                                         *)
(* Values are tagged records.  A JavaScript string of text is a sequence   *)
(* of UTF-16 code units; a byte buffer produced by the cipher is a         *)
(* symbolic term; a base64 string is the term [t |-> "b64", of |-> bytes]. *)
(***************************************************************************)
EXTENDS Integers, Sequences, FiniteSets, TLC

(***************************************************************************)
(* Bounds of the model.                                                    *)
(***************************************************************************)
MaxTextLen == 2
MaxNonce == 2
MaxKeyPairs == 2

(***************************************************************************)
(* Results of operations that may throw.                                   *)
(***************************************************************************)
Throw(e) == [ok |-> FALSE, err |-> e]

(***************************************************************************)
(* TextEncoder / TextDecoder (UTF-8), as the WHATWG Encoding standard      *)
(* defines them.  encode() first converts the string to scalar values: a   *)
(* surrogate pair is one code point, an unpaired surrogate becomes U+FFFD. *)
(* decode() (non-fatal, ignoreBOM = false) drops one leading U+FEFF.       *)
(***************************************************************************)
IsHighSurrogate(c) == c >= 55296 /\ c <= 56319
IsLowSurrogate(c) == c >= 56320 /\ c <= 57343

RECURSIVE ToScalarValues(_)
ToScalarValues(s) ==
  IF s = <<>> THEN <<>>
  ELSE IF IsHighSurrogate(s[1]) /\ Len(s) >= 2 /\ IsLowSurrogate(s[2])
       THEN <<65536 + (s[1] - 55296) * 1024 + (s[2] - 56320)>>
              \o ToScalarValues(SubSeq(s, 3, Len(s)))
  ELSE IF IsHighSurrogate(s[1]) \/ IsLowSurrogate(s[1])
       THEN <<65533>> \o ToScalarValues(Tail(s))
  ELSE <<s[1]>> \o ToScalarValues(Tail(s))

Utf8OfCodePoint(cp) ==
  IF cp < 128 THEN <<cp>>
  ELSE IF cp < 2048 THEN <<192 + (cp \div 64), 128 + (cp % 64)>>
  ELSE IF cp < 65536
       THEN <<224 + (cp \div 4096), 128 + ((cp \div 64) % 64), 128 + (cp % 64)>>
  ELSE <<240 + (cp \div 262144), 128 + ((cp \div 4096) % 64),
         128 + ((cp \div 64) % 64), 128 + (cp % 64)>>

RECURSIVE Utf8OfScalars(_)
Utf8OfScalars(cps) ==
  IF cps = <<>> THEN <<>>
  ELSE Utf8OfCodePoint(cps[1]) \o Utf8OfScalars(Tail(cps))

TextEncode(s) == [t |-> "utf8", bytes |-> Utf8OfScalars(ToScalarValues(s))]

IsCont(b) == b >= 128 /\ b < 192

RECURSIVE Utf8Decode(_)
Utf8Decode(b) ==
  IF b = <<>> THEN <<>>
  ELSE IF b[1] < 128 THEN <<b[1]>> \o Utf8Decode(Tail(b))
  ELSE IF b[1] >= 194 /\ b[1] < 224 /\ Len(b) >= 2 /\ IsCont(b[2])
       THEN <<(b[1] - 192) * 64 + (b[2] - 128)>>
              \o Utf8Decode(SubSeq(b, 3, Len(b)))
  ELSE IF b[1] >= 224 /\ b[1] < 240 /\ Len(b) >= 3 /\ IsCont(b[2]) /\ IsCont(b[3])
       THEN <<(b[1] - 224) * 4096 + (b[2] - 128) * 64 + (b[3] - 128)>>
              \o Utf8Decode(SubSeq(b, 4, Len(b)))
  ELSE IF b[1] >= 240 /\ b[1] < 245 /\ Len(b) >= 4
          /\ IsCont(b[2]) /\ IsCont(b[3]) /\ IsCont(b[4])
       THEN <<(b[1] - 240) * 262144 + (b[2] - 128) * 4096
                + (b[3] - 128) * 64 + (b[4] - 128)>>
              \o Utf8Decode(SubSeq(b, 5, Len(b)))
  ELSE <<65533>> \o Utf8Decode(Tail(b))

RECURSIVE Utf16OfScalars(_)
Utf16OfScalars(cps) ==
  IF cps = <<>> THEN <<>>
  ELSE IF cps[1] >= 65536
       THEN <<55296 + ((cps[1] - 65536) \div 1024), 56320 + ((cps[1] - 65536) % 1024)>>
              \o Utf16OfScalars(Tail(cps))
  ELSE <<cps[1]>> \o Utf16OfScalars(Tail(cps))

StripBOM(cps) == IF cps # <<>> /\ cps[1] = 65279 THEN Tail(cps) ELSE cps

TextDecode(buf) == Utf16OfScalars(StripBOM(Utf8Decode(buf.bytes)))

(***************************************************************************)
(* A string is well formed when it has no unpaired surrogate.              *)
(***************************************************************************)
RECURSIVE IsWellFormed(_)
IsWellFormed(s) ==
  IF s = <<>> THEN TRUE
  ELSE IF IsHighSurrogate(s[1])
       THEN Len(s) >= 2 /\ IsLowSurrogate(s[2]) /\ IsWellFormed(SubSeq(s, 3, Len(s)))
  ELSE ~IsLowSurrogate(s[1]) /\ IsWellFormed(Tail(s))

(***************************************************************************)
(* libsodium primitives, symbolically.  Key pair i is                      *)
(* ([t |-> "pk", id |-> i], [t |-> "sk", id |-> i]); the X25519 shared     *)
(* secret of a public key and a private key is the set of the two ids, so  *)
(* that (pk_B, sk_A) and (pk_A, sk_B) derive the same secret.              *)
(***************************************************************************)
to_base64(bytes) == [t |-> "b64", of |-> bytes]
IsBase64(s) == s.t = "b64"
from_base64(s) == s.of

PublicKeyBytes(i) == [t |-> "pk", id |-> i]
PrivateKeyBytes(i) == [t |-> "sk", id |-> i]
ConversationKeyBytes(i) == [t |-> "ck", id |-> i]
NonceBytes(n) == [t |-> "nonce", n |-> n]
(* n bytes that are no key, nonce or ciphertext of this model. *)
RawBytes(n) == [t |-> "raw", len |-> n]

crypto_box_PUBLICKEYBYTES == 32
crypto_box_SECRETKEYBYTES == 32
crypto_secretbox_KEYBYTES == 32

(* The length of a Uint8Array. *)
RECURSIVE ByteLength(_)
ByteLength(b) ==
  IF b.t = "pk" THEN crypto_box_PUBLICKEYBYTES
  ELSE IF b.t = "sk" THEN crypto_box_SECRETKEYBYTES
  ELSE IF b.t = "ck" THEN crypto_secretbox_KEYBYTES
  ELSE IF b.t = "nonce" THEN 24
  ELSE IF b.t = "raw" THEN b.len
  ELSE IF b.t = "utf8" THEN Len(b.bytes)
  ELSE IF b.t \in {"box", "secretbox"} THEN 16 + ByteLength(b.m)
  ELSE 48 + ByteLength(b.m)

crypto_box_secret_only(pk, sk) == {sk.id}

crypto_box_beforenm(pk, sk) == {pk.id, sk.id}

crypto_box_easy(m, nonce, pk, sk) ==
  [t |-> "box", shared |-> crypto_box_beforenm(pk, sk), nonce |-> nonce, m |-> m]

crypto_box_open_ok(c, nonce, pk, sk) ==
  /\ c.t = "box"
  /\ pk.t = "pk" /\ sk.t = "sk"
  /\ c.shared = crypto_box_beforenm(pk, sk)
  /\ c.nonce = nonce

crypto_secretbox_easy(m, nonce, key) ==
  [t |-> "secretbox", key |-> key, nonce |-> nonce, m |-> m]

crypto_secretbox_open_ok(c, nonce, key) ==
  /\ c.t = "secretbox"
  /\ c.key = key
  /\ c.nonce = nonce


(***************************************************************************)
(* lib/crypto/encryption.ts.  rnd is the value randombytes_buf returns.    *)
(* A malformed base64 argument makes from_base64 throw, a key of the wrong *)
(* length makes the libsodium call throw; in the encrypt functions that    *)
(* error propagates, in the decrypt functions the try/catch replaces every *)
(* error by one fixed Error.                                               *)
(***************************************************************************)
encryptMessage(message, recipientPublicKey, senderPrivateKey, rnd) ==
  IF ~IsBase64(recipientPublicKey) \/ ~IsBase64(senderPrivateKey)
  THEN Throw("invalid base64")
  ELSE IF ByteLength(from_base64(recipientPublicKey)) # crypto_box_PUBLICKEYBYTES
  THEN Throw("invalid publicKey length")
  ELSE IF ByteLength(from_base64(senderPrivateKey)) # crypto_box_SECRETKEYBYTES
  THEN Throw("invalid privateKey length")
  ELSE LET recipientPubKey == from_base64(recipientPublicKey)
           senderPrivKey == from_base64(senderPrivateKey)
           messageBytes == TextEncode(message)
           nonce == NonceBytes(rnd)
           cipherText == crypto_box_easy(messageBytes, nonce, recipientPubKey, senderPrivKey)
       IN [ok |-> TRUE,
           payload |-> [cipherText |-> to_base64(cipherText), nonce |-> to_base64(nonce)]]

decryptMessage(encryptedMessage, senderPublicKey, recipientPrivateKey) ==
  IF /\ IsBase64(senderPublicKey) /\ IsBase64(recipientPrivateKey)
     /\ IsBase64(encryptedMessage.cipherText) /\ IsBase64(encryptedMessage.nonce)
     /\ crypto_box_open_ok(from_base64(encryptedMessage.cipherText),
                           from_base64(encryptedMessage.nonce),
                           from_base64(senderPublicKey),
                           from_base64(recipientPrivateKey))
  THEN [ok |-> TRUE, text |-> TextDecode(from_base64(encryptedMessage.cipherText).m)]
  ELSE Throw("Falha ao descriptografar mensagem. Verifique as chaves.")

encryptMessageWithConversationKey(message, conversationKey, rnd) ==
  IF ~IsBase64(conversationKey)
  THEN Throw("invalid base64")
  ELSE IF ByteLength(from_base64(conversationKey)) # crypto_secretbox_KEYBYTES
  THEN Throw("invalid key length")
  ELSE LET key == from_base64(conversationKey)
           messageBytes == TextEncode(message)
           nonce == NonceBytes(rnd)
           cipherText == crypto_secretbox_easy(messageBytes, nonce, key)
       IN [ok |-> TRUE,
           payload |-> [cipherText |-> to_base64(cipherText), nonce |-> to_base64(nonce)]]

decryptMessageWithConversationKey(encryptedMessage, conversationKey) ==
  IF /\ IsBase64(conversationKey)
     /\ IsBase64(encryptedMessage.cipherText) /\ IsBase64(encryptedMessage.nonce)
     /\ crypto_secretbox_open_ok(from_base64(encryptedMessage.cipherText),
                                 from_base64(encryptedMessage.nonce),
                                 from_base64(conversationKey))
  THEN [ok |-> TRUE, text |-> TextDecode(from_base64(encryptedMessage.cipherText).m)]
  ELSE Throw("Falha ao descriptografar mensagem. Verifique a chave da conversa.")

(***************************************************************************)
(* lib/crypto/keys.ts: generateKeyPair returns the two halves of pair i,   *)
(* base64-encoded; generateConversationKey returns 32 random bytes.        *)
(***************************************************************************)
generateKeyPair(i) ==
  [publicKey |-> to_base64(PublicKeyBytes(i)), privateKey |-> to_base64(PrivateKeyBytes(i))]

generateConversationKey(i) == to_base64(ConversationKeyBytes(i))

(***************************************************************************)
(* Inputs of the cipher.                                                   *)
(* Code units: "a", "é", U+FEFF, and the surrogate pair of U+1F600.        *)
(***************************************************************************)
CodeUnits == {97, 233, 65279, 55357, 56832}
Texts == UNION {[1..n -> CodeUnits] : n \in 0..MaxTextLen}
KeyPairIds == 1..MaxKeyPairs
Nonces == 1..MaxNonce

(***************************************************************************)
(* State.                                                                  *)
(*   cipher      the cipher exercised on its own                           *)
(*   store       the IndexedDB object store 'private_keys' (keyPath        *)
(*               userId) of this browser profile                           *)
(*   now         Date.now()                                                *)
(*   idb         the calls of savePrivateKey / getPrivateKey /             *)
(*               deletePrivateKey that have not settled, in call order     *)
(*   engine      whether the storage engine can fail                       *)
(*   api         a caller of the vault's exported functions, one call at   *)
(*               a time                                                    *)
(*   hist        per user, the last save/delete/import that resolved       *)
(*   runs        the key-setup runs of the signed-in user on this device   *)
(*   profile     profiles.public_key of that user in the remote store      *)
(*   clientKey   profile.public_key as the page holds it (useAuth state)   *)
(*   net         the requests on their way to the server                   *)
(*   sent        every request that has left the client                    *)
(*   auth        the session and the progress of signOut                   *)
(*   minted      how many key pairs generateKeyPair has produced           *)
(*   send        the call of sendMessage in progress, with its locals      *)
(*   sendNo      how many calls of sendMessage have been made              *)
(*   outbox      every message row the client has sent to the remote store *)
(*   inserted    the rows of the remote messages table                     *)
(*   messages    the hook's messages list                                  *)
(*   peerProfileKey  profiles.public_key of the other participant          *)
(*   peerKeys    localStorage: the cached public key of the peer           *)
(*   sentTexts   localStorage: the texts of sent messages, by message id   *)
(*   convKeyRow  conversation_keys.encrypted_key of the user               *)
(*   convKeyCache    useMessages: conversationKeyCache                     *)
(*   load            a run of loadMessages / decryptMessages of one of the *)
(*                   three message hooks, with its per-message tasks       *)
(*   setup           per participant, their call of setupConversationKey   *)
(*   conversation_keys  the table conversation_keys for the conversation:  *)
(*                   user_id -> encrypted_key                              *)
(*   keyLog          how many conversation keys have been generated, and   *)
(*                   which of them have been written to the table          *)
(***************************************************************************)
VARIABLES cipher, store, now, idb, engine, api, hist,
          runs, profile, clientKey, net, sent, auth, minted,
          send, sendNo, outbox, inserted, messages, peerProfileKey, peerKeys,
          sentTexts, convKeyRow, convKeyCache, load,
          setup, conversation_keys, keyLog, view, ledger, convs

vars == <<cipher, store, now, idb, engine, api, hist,
          runs, profile, clientKey, net, sent, auth, minted,
          send, sendNo, outbox, inserted, messages, peerProfileKey, peerKeys,
          sentTexts, convKeyRow, convKeyCache, load,
          setup, conversation_keys, keyLog, view, ledger, convs>>
cipherVars == <<cipher>>
vaultVars == <<store, now, idb, engine, api, hist>>
flowVars == <<runs, profile, clientKey, net, sent, auth, minted>>
sendVars == <<send, sendNo, outbox, inserted, messages, peerProfileKey, peerKeys,
              sentTexts, convKeyRow, convKeyCache>>
loadVars == <<load>>
setupVars == <<setup, conversation_keys, keyLog>>

ViewOff == [pc |-> "off"]
LedgerOff == [pc |-> "off"]
ConvsOff == [pc |-> "off"]

CipherIdle == [pc |-> "off"]

FlowOff ==
  /\ runs = <<>> /\ profile = [t |-> "null"] /\ clientKey = [t |-> "null"]
  /\ net = {} /\ sent = {} /\ auth = [pc |-> "off"] /\ minted = 0

SendOff ==
  /\ send = [pc |-> "off"] /\ sendNo = 0 /\ outbox = {} /\ inserted = <<>>
  /\ messages = <<>> /\ peerProfileKey = [t |-> "null"] /\ peerKeys = [t |-> "null"]
  /\ sentTexts = <<>> /\ convKeyRow = [t |-> "null"] /\ convKeyCache = [t |-> "null"]
  /\ load = [pc |-> "off"]
  /\ setup = <<>> /\ conversation_keys = <<>> /\ keyLog = [minted |-> 0, distributed |-> {}]
  /\ view = ViewOff /\ ledger = LedgerOff /\ convs = ConvsOff


(***************************************************************************)
(* lib/crypto/storage.ts: the private key vault.                           *)
(*                                                                         *)
(* Every exported function opens the database, creates one transaction and *)
(* issues one request.  IndexedDB serves open requests of one database in  *)
(* the order they were made and runs overlapping transactions in the order *)
(* they were created, so the pending calls form a queue.  A call settles   *)
(* with one of these outcomes:                                             *)
(*   ok            the request succeeded and the transaction committed     *)
(*   openError     indexedDB.open failed: openDB rejects (line 24)         *)
(*   requestError  the request failed: request.onerror rejects             *)
(*   commitAbort   the request succeeded (request.onsuccess resolved the   *)
(*                 promise) and the transaction then aborted at commit     *)
(*                 (quota, I/O error): the write is rolled back.  No       *)
(*                 handler of storage.ts observes the transaction.         *)
(***************************************************************************)
MaxClock == 1
Users == {"u1", "u2"}
Null == [t |-> "null"]
Undefined == [t |-> "undefined"]
EmptyString == [t |-> "empty"]
PrivateKeys == {generateKeyPair(i).privateKey : i \in KeyPairIds}

Resolved(v) == [status |-> "resolved", value |-> v]
Rejected(e) == [status |-> "rejected", error |-> e]

Outcomes(fn) ==
  IF engine = "healthy" THEN {"ok"}
  ELSE IF fn = "getPrivateKey" THEN {"ok", "openError", "requestError"}
  ELSE {"ok", "openError", "requestError", "commitAbort"}

StoredPrivateKey(userId, privateKey, createdAt, lastAccessed) ==
  [userId |-> userId, privateKey |-> privateKey,
   createdAt |-> createdAt, lastAccessed |-> lastAccessed]

(* IDBObjectStore.put / delete / get on a store with keyPath 'userId'. *)
StorePut(s, data) ==
  [u \in DOMAIN s \cup {data.userId} |-> IF u = data.userId THEN data ELSE s[u]]
(* A delete that clears the object store instead of one record. *)
StoreDeleteAll(s, userId) == <<>>
StoreDelete(s, userId) == [u \in DOMAIN s \ {userId} |-> s[u]]
StoreHas(s, userId) == userId \in DOMAIN s

(* A pending call: fn, its arguments, and who awaits it. *)
Call(fn, userId, privateKey, by) ==
  [fn |-> fn, userId |-> userId, privateKey |-> privateKey, by |-> by]

(* savePrivateKey (lines 44-64): the record it puts; both times are Date.now(). *)
savePrivateKeyData(userId, privateKey, t) == StoredPrivateKey(userId, privateKey, t, t)

(* The object store after a call settled with the given outcome. *)
StoreAfter(s, c, outcome, t) ==
  IF outcome # "ok" THEN s
  ELSE IF c.fn = "savePrivateKey"
       THEN StorePut(s, savePrivateKeyData(c.userId, c.privateKey, t))
  ELSE IF c.fn = "deletePrivateKey" THEN StoreDelete(s, c.userId)
  ELSE s

(* What the promise of the call settles to. *)
Settled(s, c, outcome) ==
  IF outcome \in {"openError", "requestError"} THEN Rejected(outcome)
  ELSE IF c.fn = "getPrivateKey"
       THEN IF StoreHas(s, c.userId) THEN Resolved(s[c.userId].privateKey)
            ELSE Resolved(Null)
  ELSE Resolved(Undefined)

(* getPrivateKey (lines 79-86): on a hit it calls savePrivateKey(userId,    *)
(* data.privateKey) without awaiting it, and catches its rejection.        *)
RefreshCalls(s, c, outcome) ==
  IF c.fn = "getPrivateKey" /\ outcome = "ok" /\ StoreHas(s, c.userId)
  THEN <<Call("savePrivateKey", c.userId, s[c.userId].privateKey, "refresh")>>
  ELSE <<>>

(***************************************************************************)
(* exportPrivateKey (lines 124-139) and importPrivateKey (lines 145-157).  *)
(* JSON.stringify of an object is the term [t |-> "json", doc |-> object]; *)
(* JSON.parse fails on any other text.                                     *)
(***************************************************************************)
JSONstringify(doc) == [t |-> "json", doc |-> doc]
JSONparses(text) == text.t = "json"
JSONparse(text) == text.doc
toISOString(t) == [t |-> "iso", ms |-> t]
Warning == "MANTENHA ESTA CHAVE SEGURA! NUNCA compartilhe com ninguem."

(* A backup document without the warning. *)
exportDataNoWarning(userId, privateKey, t) ==
  [userId |-> userId, privateKey |-> privateKey, exportedAt |-> toISOString(t)]

exportData(userId, privateKey, t) ==
  [userId |-> userId, privateKey |-> privateKey,
   exportedAt |-> toISOString(t), warning |-> Warning]

(* The continuation of exportPrivateKey after getPrivateKey settled. *)
exportPrivateKey(userId, got, t) ==
  IF got.status = "rejected" THEN got
  ELSE IF got.value = Null \/ got.value = EmptyString
       THEN Rejected("Chave privada nao encontrada")
  ELSE Resolved(JSONstringify(exportData(userId, got.value, t)))

(* !data.userId || !data.privateKey *)
Falsy(doc, field) ==
  \/ field \notin DOMAIN doc
  \/ (field = "userId" /\ doc.userId = "")
  \/ (field = "privateKey" /\ doc.privateKey = EmptyString)

(* A validation that forgets to look at privateKey. *)
importErrorNoKeyCheck(exportJson) ==
  IF ~JSONparses(exportJson) THEN "Falha ao importar chave privada: SyntaxError"
  ELSE IF Falsy(JSONparse(exportJson), "userId")
       THEN "Falha ao importar chave privada: Formato de backup invalido"
  ELSE ""

(* The part of importPrivateKey before savePrivateKey: the error it throws, *)
(* or "" when the document passes.                                         *)
importError(exportJson) ==
  IF ~JSONparses(exportJson) THEN "Falha ao importar chave privada: SyntaxError"
  ELSE IF Falsy(JSONparse(exportJson), "userId") \/ Falsy(JSONparse(exportJson), "privateKey")
       THEN "Falha ao importar chave privada: Formato de backup invalido"
  ELSE ""

(* The arguments importPrivateKey passes to savePrivateKey (line 153); a    *)
(* missing property reads as undefined.                                    *)
importUserId(exportJson) ==
  IF "userId" \in DOMAIN JSONparse(exportJson) THEN JSONparse(exportJson).userId ELSE ""
importKey(exportJson) ==
  IF "privateKey" \in DOMAIN JSONparse(exportJson)
  THEN JSONparse(exportJson).privateKey ELSE Undefined

(* The continuation of importPrivateKey after savePrivateKey settled. *)
importPrivateKey(saved) ==
  IF saved.status = "rejected"
  THEN Rejected("Falha ao importar chave privada: " \o saved.error)
  ELSE Resolved(Undefined)

(***************************************************************************)
(* A caller of the vault: it makes one call, awaits it, then makes the     *)
(* next one.                                                               *)
(***************************************************************************)
ImportBlobs ==
  {[t |-> "text"],
   JSONstringify([privateKey |-> generateKeyPair(1).privateKey]),
   JSONstringify([userId |-> "u1"]),
   JSONstringify([userId |-> "", privateKey |-> generateKeyPair(1).privateKey]),
   JSONstringify([userId |-> "u2", privateKey |-> EmptyString])}
    \cup {JSONstringify(exportData(u, k, 0)) : u \in Users, k \in PrivateKeys}

ApiIdle == [pc |-> "idle", op |-> "none", userId |-> "", privateKey |-> Null,
            blob |-> [t |-> "text"], outcome |-> "none", refresh |-> "none",
            res |-> Resolved(Undefined)]

NoWrite == [op |-> "none", privateKey |-> Null]

VaultOff ==
  /\ store = <<>> /\ now = 0 /\ idb = <<>> /\ engine = "healthy"
  /\ api = ApiIdle /\ hist = [u \in Users |-> NoWrite]

VaultInit(e) ==
  /\ cipher = CipherIdle /\ FlowOff /\ SendOff
  /\ store = <<>> /\ now = 0 /\ idb = <<>> /\ engine = e
  /\ api = ApiIdle /\ hist = [u \in Users |-> NoWrite]

ApiBegin(op, userId, privateKey, blob) ==
  [pc |-> "await", op |-> op, userId |-> userId, privateKey |-> privateKey,
   blob |-> blob, outcome |-> "none", refresh |-> "none", res |-> Resolved(Undefined)]

(* The document the caller has just been handed by exportPrivateKey. *)
LastExport ==
  IF api.op = "export" /\ api.res.status = "resolved" THEN {api.res.value} ELSE {}

ApiSave ==
  /\ api.pc = "idle"
  /\ \E u \in Users, k \in PrivateKeys :
       /\ api' = ApiBegin("save", u, k, [t |-> "text"])
       /\ idb' = Append(idb, Call("savePrivateKey", u, k, "api"))
  /\ UNCHANGED <<convs, ledger, view, setupVars, load, sendVars, cipher, flowVars, store, now, engine, hist>>

ApiGet ==
  /\ api.pc = "idle"
  /\ \E u \in Users :
       /\ api' = ApiBegin("get", u, Null, [t |-> "text"])
       /\ idb' = Append(idb, Call("getPrivateKey", u, Null, "api"))
  /\ UNCHANGED <<convs, ledger, view, setupVars, load, sendVars, cipher, flowVars, store, now, engine, hist>>

ApiDelete ==
  /\ api.pc = "idle"
  /\ \E u \in Users :
       /\ api' = ApiBegin("delete", u, Null, [t |-> "text"])
       /\ idb' = Append(idb, Call("deletePrivateKey", u, Null, "api"))
  /\ UNCHANGED <<convs, ledger, view, setupVars, load, sendVars, cipher, flowVars, store, now, engine, hist>>

ApiExport ==
  /\ api.pc = "idle"
  /\ \E u \in Users :
       /\ api' = ApiBegin("export", u, Null, [t |-> "text"])
       /\ idb' = Append(idb, Call("getPrivateKey", u, Null, "api"))
  /\ UNCHANGED <<convs, ledger, view, setupVars, load, sendVars, cipher, flowVars, store, now, engine, hist>>

ApiImport ==
  /\ api.pc = "idle"
  /\ \E blob \in ImportBlobs \cup LastExport :
       IF importError(blob) # ""
       THEN /\ api' = [ApiBegin("import", "", Null, blob) EXCEPT
                         !.pc = "idle", !.res = Rejected(importError(blob))]
            /\ idb' = idb
       ELSE /\ api' = ApiBegin("import", importUserId(blob), importKey(blob), blob)
            /\ idb' = Append(idb, Call("savePrivateKey", importUserId(blob),
                                       importKey(blob), "api"))
  /\ UNCHANGED <<convs, ledger, view, setupVars, load, sendVars, cipher, flowVars, store, now, engine, hist>>

(* What the caller's promise settles to, given what its vault call settled to. *)
ApiResult(op, userId, settled, t) ==
  IF op = "export" THEN exportPrivateKey(userId, settled, t)
  ELSE IF op = "import" THEN importPrivateKey(settled)
  ELSE settled

HistAfter(h, a, res) ==
  IF res.status = "resolved" /\ a.op \in {"save", "import"}
  THEN [h EXCEPT ![a.userId] = [op |-> "save", privateKey |-> a.privateKey]]
  ELSE IF res.status = "resolved" /\ a.op = "delete"
  THEN [h EXCEPT ![a.userId] = [op |-> "delete", privateKey |-> Null]]
  ELSE h

(* A refresh whose rejection reaches the caller that read the key. *)
AfterRefreshSurfaced(a, outcome) ==
  IF a.refresh = "pending"
  THEN IF outcome = "ok" THEN [a EXCEPT !.refresh = "done"]
       ELSE [a EXCEPT !.refresh = "failed", !.res = Rejected(outcome)]
  ELSE a

(* The rejection of a refresh is caught and logged (line 84): the caller    *)
(* that read the key is not affected.                                      *)
AfterRefresh(a, outcome) ==
  IF a.refresh = "pending"
  THEN [a EXCEPT !.refresh = IF outcome = "ok" THEN "done" ELSE "failed"]
  ELSE a

(* The oldest pending call settles; the awaiting caller continues. *)
VaultStep ==
  /\ idb # <<>>
  /\ LET c == Head(idb) IN
     \E outcome \in Outcomes(c.fn) :
       LET settled == Settled(store, c, outcome)
           res == ApiResult(api.op, api.userId, settled, now)
       IN /\ store' = StoreAfter(store, c, outcome, now)
          /\ idb' = Tail(idb) \o RefreshCalls(store, c, outcome)
          /\ IF c.by = "refresh"
             THEN /\ api' = AfterRefresh(api, outcome)
                  /\ hist' = hist
             ELSE /\ api' = [api EXCEPT !.pc = "idle", !.outcome = outcome, !.res = res,
                               !.refresh = IF RefreshCalls(store, c, outcome) # <<>>
                                           THEN "pending" ELSE "none"]
                  /\ hist' = HistAfter(hist, api, res)
  /\ UNCHANGED <<convs, ledger, view, setupVars, load, sendVars, cipher, flowVars, now, engine>>

Tick ==
  /\ now < MaxClock
  /\ now' = now + 1
  /\ UNCHANGED <<convs, ledger, view, setupVars, load, sendVars, cipher, flowVars, store, idb, engine, api, hist>>

VaultNext ==
  \/ ApiSave \/ ApiGet \/ ApiDelete \/ ApiExport \/ ApiImport
  \/ VaultStep \/ Tick

SpecVault == VaultInit("healthy") /\ [][VaultNext]_vars
SpecVaultFaulty == VaultInit("faulty") /\ [][VaultNext]_vars


(***************************************************************************)
(* Claims about the vault.                                                 *)
(***************************************************************************)
ApiDone(op) == api.pc = "idle" /\ api.op = op

(* C3: get(userId) returns the key of the most recent save of userId when *)
(* no delete of userId completed after it, and absent when the most recent *)
(* completed write of userId is a delete or there was none; the writes of  *)
(* another userId do not matter.                                           *)
C3_GetReturnsLastWrite ==
  ApiDone("get") =>
    api.res = IF hist[api.userId].op = "save"
              THEN Resolved(hist[api.userId].privateKey)
              ELSE Resolved(Null)

C3_Witness ==
  /\ ApiDone("get") /\ api.userId = "u1"
  /\ hist["u1"].op = "save" /\ api.res = Resolved(hist["u1"].privateKey)
  /\ hist["u2"].op = "delete"

(* C5: a save, delete or import that resolved has written (or removed)    *)
(* the record; when the storage engine failed the call rejects.            *)
C5_WriteFailureReported ==
  (api.pc = "idle" /\ api.res.status = "resolved") =>
    /\ api.op \in {"save", "import"} =>
         (StoreHas(store, api.userId) /\ store[api.userId].privateKey = api.privateKey)
    /\ api.op = "delete" => ~StoreHas(store, api.userId)

(* C6: a get whose read succeeded resolves to the stored key (or absent), *)
(* and stays resolved whatever happens to the refresh it fired.            *)
C6_RefreshFailureNotSurfaced ==
  (ApiDone("get") /\ api.outcome = "ok") =>
    /\ api.res.status = "resolved"
    /\ api.res.value = IF StoreHas(store, api.userId)
                       THEN store[api.userId].privateKey ELSE Null

C6_Witness ==
  /\ ApiDone("get") /\ api.refresh = "failed"
  /\ StoreHas(store, api.userId)
  /\ api.res = Resolved(store[api.userId].privateKey)

(* C7: the save that a get triggers leaves createdAt and privateKey of    *)
(* the record unchanged and only advances lastAccessed.                    *)
RefreshSettles ==
  /\ idb # <<>> /\ Head(idb).by = "refresh" /\ idb' = Tail(idb)
  /\ StoreHas(store, Head(idb).userId)

C7_RefreshKeepsCreatedAt ==
  [][RefreshSettles =>
       LET u == Head(idb).userId IN
         /\ StoreHas(store', u)
         /\ store'[u].createdAt = store[u].createdAt
         /\ store'[u].privateKey = store[u].privateKey
         /\ store'[u].lastAccessed >= store[u].lastAccessed]_vars

(* C8: export of a user without a key fails with the not-found error and  *)
(* starts no write; otherwise the document has exactly the fields userId,  *)
(* privateKey, exportedAt and warning, for the requested user and with the *)
(* stored key.                                                             *)
C8_Export ==
  ApiDone("export") =>
    IF StoreHas(store, api.userId)
    THEN /\ api.res.status = "resolved"
         /\ JSONparses(api.res.value)
         /\ DOMAIN JSONparse(api.res.value) = {"userId", "privateKey", "exportedAt", "warning"}
         /\ JSONparse(api.res.value).userId = api.userId
         /\ JSONparse(api.res.value).privateKey = store[api.userId].privateKey
    ELSE /\ api.res = Rejected("Chave privada nao encontrada")
         /\ idb = <<>>

C8_Witness ==
  /\ ApiDone("export") /\ api.res.status = "resolved"
  /\ JSONparse(api.res.value).exportedAt = toISOString(1)

C8_WitnessNotFound ==
  ApiDone("export") /\ api.res.status = "rejected" /\ hist[api.userId].op = "delete"

(* C9: import of a blob that does not parse or lacks userId or privateKey *)
(* (missing or empty) rejects with an invalid-format error and leaves the  *)
(* vault as it was; import of any other blob puts blob.privateKey under    *)
(* blob.userId.                                                            *)
ImportSettles == api'.op = "import" /\ api'.pc = "idle" /\ api' # api

BlobLacks(blob, field) ==
  \/ field \notin DOMAIN blob.doc
  \/ (field = "userId" /\ blob.doc.userId = "")
  \/ (field = "privateKey" /\ blob.doc.privateKey = EmptyString)

BlobInvalid(blob) ==
  blob.t # "json" \/ BlobLacks(blob, "userId") \/ BlobLacks(blob, "privateKey")

InvalidFormatErrors ==
  {"Falha ao importar chave privada: SyntaxError",
   "Falha ao importar chave privada: Formato de backup invalido"}

C9_Import ==
  [][ImportSettles =>
       IF BlobInvalid(api'.blob)
       THEN /\ api'.res.status = "rejected"
            /\ api'.res.error \in InvalidFormatErrors
            /\ store' = store /\ idb' = idb
       ELSE /\ api'.res.status = "resolved"
            /\ StoreHas(store', api'.blob.doc.userId)
            /\ store'[api'.blob.doc.userId].privateKey = api'.blob.doc.privateKey]_vars

(* The document that export produced at time 1 was imported, and the      *)
(* vault holds its key for its user.                                       *)
C9_Witness ==
  /\ ApiDone("import") /\ ~BlobInvalid(api.blob)
  /\ api.blob.doc = exportData(api.userId, api.privateKey, 1)
  /\ api.res.status = "resolved"
  /\ StoreHas(store, api.userId)
  /\ store[api.userId].privateKey = api.blob.doc.privateKey

C9_WitnessInvalid ==
  /\ ApiDone("import") /\ BlobInvalid(api.blob) /\ api.blob.t = "json"
  /\ store # <<>>

(***************************************************************************)
(* The cipher on its own: choose a plaintext and key material, encrypt     *)
(* (drawing a nonce), then decrypt with some key material.                 *)
(***************************************************************************)
CipherInit ==
  /\ cipher \in [pc : {"input"}, mode : {"pairwise", "conversation"}, m : Texts,
                 a : KeyPairIds, b : KeyPairIds]
  /\ VaultOff /\ FlowOff /\ SendOff

CipherEncrypt ==
  /\ cipher.pc = "input"
  /\ \E rnd \in Nonces :
       LET enc == IF cipher.mode = "pairwise"
                  THEN encryptMessage(cipher.m, generateKeyPair(cipher.b).publicKey,
                                      generateKeyPair(cipher.a).privateKey, rnd)
                  ELSE encryptMessageWithConversationKey(cipher.m,
                                      generateConversationKey(cipher.a), rnd)
       IN cipher' = [pc |-> "encrypted", mode |-> cipher.mode, m |-> cipher.m,
                     a |-> cipher.a, b |-> cipher.b, enc |-> enc]
  /\ UNCHANGED <<convs, ledger, view, setupVars, load, vaultVars, flowVars, sendVars>>

(* The key pairs a decryption can be tried with: those in use and one     *)
(* more, of somebody who took no part in the encryption.                   *)
DecryptKeyIds == 1..(MaxKeyPairs + 1)

CipherDecrypt ==
  /\ cipher.pc = "encrypted"
  /\ cipher.enc.ok
  /\ \E x \in DecryptKeyIds, y \in DecryptKeyIds :
       LET dec == IF cipher.mode = "pairwise"
                  THEN decryptMessage(cipher.enc.payload, generateKeyPair(x).publicKey,
                                      generateKeyPair(y).privateKey)
                  ELSE decryptMessageWithConversationKey(cipher.enc.payload,
                                      generateConversationKey(x))
       IN cipher' = [pc |-> "decrypted", mode |-> cipher.mode, m |-> cipher.m,
                     a |-> cipher.a, b |-> cipher.b, enc |-> cipher.enc,
                     x |-> x, y |-> y, dec |-> dec]
  /\ UNCHANGED <<convs, ledger, view, setupVars, load, vaultVars, flowVars, sendVars>>

CipherNext == CipherEncrypt \/ CipherDecrypt

SpecCipher == CipherInit /\ [][CipherNext]_vars

(***************************************************************************)
(* The decryption was made with the key material of the round trip:        *)
(* pairwise, A's public key and B's private key; conversation mode, the    *)
(* key the message was encrypted with.                                     *)
(***************************************************************************)
RoundTripDone ==
  /\ cipher.pc = "decrypted"
  /\ IF cipher.mode = "pairwise"
     THEN cipher.x = cipher.a /\ cipher.y = cipher.b
     ELSE cipher.x = cipher.a

(* C10: in both modes the round trip returns m, for every plaintext m.    *)
C10_RoundTripEveryPlaintext ==
  RoundTripDone => (cipher.dec.ok /\ cipher.dec.text = cipher.m)

(* The extent of the failure: the round trip does return m for every      *)
(* plaintext m that has no unpaired surrogate and does not begin with      *)
(* U+FEFF.                                                                 *)
RoundTripWellFormed ==
  (RoundTripDone /\ IsWellFormed(cipher.m) /\ StripBOM(cipher.m) = cipher.m)
     => (cipher.dec.ok /\ cipher.dec.text = cipher.m)

RoundTripWellFormedWitness ==
  /\ RoundTripDone
  /\ cipher.m = <<55357, 56832>>
  /\ cipher.dec.ok /\ cipher.dec.text = cipher.m

(***************************************************************************)
(* A sequence of encryptions.  randombytes_buf returns 24 bytes of a       *)
(* cryptographic generator; it is modelled as a generator that does not    *)
(* return the same value twice, so that a repeated nonce can only come     *)
(* from the code.  cipher.drawn is how many values it has returned.        *)
(***************************************************************************)
MaxEncryptions == 2
ShortTexts == {m \in Texts : Len(m) <= 1}
randombytes_buf(drawn) == drawn + 1

NonceInit ==
  /\ cipher = [pc |-> "sequence", drawn |-> 0, log |-> <<>>]
  /\ VaultOff /\ FlowOff /\ SendOff

EncryptNext ==
  /\ cipher.pc = "sequence"
  /\ Len(cipher.log) < MaxEncryptions
  /\ \E mode \in {"pairwise", "conversation"}, m \in ShortTexts,
        a \in KeyPairIds, b \in KeyPairIds :
       LET rnd == randombytes_buf(cipher.drawn)
           enc == IF mode = "pairwise"
                  THEN encryptMessage(m, generateKeyPair(b).publicKey,
                                      generateKeyPair(a).privateKey, rnd)
                  ELSE encryptMessageWithConversationKey(m, generateConversationKey(a), rnd)
       IN cipher' = [pc |-> "sequence", drawn |-> cipher.drawn + 1,
                     log |-> Append(cipher.log,
                                    [mode |-> mode, m |-> m,
                                     a |-> a, b |-> IF mode = "pairwise" THEN b ELSE a,
                                     payload |-> enc.payload])]
  /\ UNCHANGED <<convs, ledger, view, setupVars, load, vaultVars, flowVars, sendVars>>

SpecNonce == NonceInit /\ [][EncryptNext]_vars

(* Two encryptions of the log were made under the same key. *)
SameKey(e, f) ==
  /\ e.mode = f.mode
  /\ IF e.mode = "pairwise" THEN {e.a, e.b} = {f.a, f.b} ELSE e.a = f.a

(* What the receiver of a logged encryption gets back. *)
Received(e) ==
  IF e.mode = "pairwise"
  THEN decryptMessage(e.payload, generateKeyPair(e.a).publicKey,
                      generateKeyPair(e.b).privateKey)
  ELSE decryptMessageWithConversationKey(e.payload, generateConversationKey(e.a))

(* The nonce part of C11 on its own: no (key, nonce) pair is used twice,   *)
(* and equal plaintexts under one key give different payloads.             *)
NoncesAreFresh ==
  \A i \in DOMAIN cipher.log, j \in DOMAIN cipher.log :
    (i < j /\ SameKey(cipher.log[i], cipher.log[j])) =>
      /\ cipher.log[i].payload.nonce # cipher.log[j].payload.nonce
      /\ cipher.log[i].payload # cipher.log[j].payload

(* C11: over a sequence of encryptions no (key, nonce) pair is used       *)
(* twice, and two encryptions of the same plaintext under the same key     *)
(* give two different payloads that both decrypt to that plaintext.        *)
C11_FreshNonceEveryCall ==
  \A i \in DOMAIN cipher.log, j \in DOMAIN cipher.log :
    (i < j /\ SameKey(cipher.log[i], cipher.log[j])) =>
      /\ cipher.log[i].payload.nonce # cipher.log[j].payload.nonce
      /\ cipher.log[i].m = cipher.log[j].m =>
           /\ cipher.log[i].payload # cipher.log[j].payload
           /\ Received(cipher.log[i]).ok /\ Received(cipher.log[i]).text = cipher.log[i].m
           /\ Received(cipher.log[j]).ok /\ Received(cipher.log[j]).text = cipher.log[j].m

(***************************************************************************)
(* The third-party part of C12 on its own: with A's public key and the     *)
(* private key of a pair that is neither A nor B, decryptMessage throws    *)
(* its one error and returns no text.                                      *)
(***************************************************************************)
ThirdPartyAttempt ==
  /\ cipher.pc = "decrypted" /\ cipher.mode = "pairwise"
  /\ cipher.x = cipher.a /\ cipher.y \notin {cipher.a, cipher.b}

ThirdPartyCannotDecrypt ==
  ThirdPartyAttempt =>
    cipher.dec = Throw("Falha ao descriptografar mensagem. Verifique as chaves.")

(* C12: B recovers the plaintext of what A encrypted for B, and every     *)
(* third key pair C gets the decryption error and no plaintext.            *)
C12_OnlyRecipientDecrypts ==
  /\ (RoundTripDone /\ cipher.mode = "pairwise") =>
       (cipher.dec.ok /\ cipher.dec.text = cipher.m)
  /\ ThirdPartyCannotDecrypt

(***************************************************************************)
(* Key setup and sign-out of one user on one device.                       *)
(*                                                                         *)
(* A key-setup run is one call of setupKeysIfNeeded (KeySetupBanner:       *)
(* "auto" from the banner's timer, "force" from its regenerate button) or  *)
(* one click on the chat window's generate-keys button ("button").  Every  *)
(* await of a run is a point where the other runs, sign-out, the vault and *)
(* the server can take steps.                                              *)
(***************************************************************************)
MaxRuns == 2
RunName(i) == "r" \o ToString(i)
RunIds == {RunName(i) : i \in 1..MaxRuns}
User == "u1"
NoProfile == [t |-> "noprofile"]
NoBody == [t |-> "nobody"]

RunIdle == [pc |-> "idle", kind |-> "none", seen |-> Null, kp |-> 0, ok |-> FALSE]
Finished == {"idle", "done", "skipped", "failed", "unloaded"}

(* profile.public_key && profile.public_key.trim() !== '' *)
hasPublicKey(k) == k \notin {Null, NoProfile, EmptyString}

(* The leak a careless serialisation of the pair would be. *)
setupKeysBodyWholePair(keyPair) == JSONstringify(keyPair)

(* body: JSON.stringify({ publicKey }) *)
setupKeysBody(keyPair) == JSONstringify([publicKey |-> keyPair.publicKey])

Request(url, body, by) == [url |-> url, body |-> body, by |-> by]
SetupKeysRequest(r, kp) ==
  Request("/api/auth/setup-keys", setupKeysBody(generateKeyPair(kp)), r)
ProfileRequest == Request("/api/auth/profile", NoBody, "session")
SignOutRequest == Request("auth.signOut", NoBody, "signOut")

(* Runs are named in the order they start. *)
NextRun(r) ==
  \E i \in 1..MaxRuns :
    /\ r = RunName(i)
    /\ runs[r].pc = "idle"
    /\ \A j \in 1..(i - 1) : runs[RunName(j)].pc # "idle"

FlowInit(e) ==
  /\ cipher = CipherIdle /\ SendOff
  /\ store = <<>> /\ now = 0 /\ idb = <<>> /\ engine = e
  /\ api = ApiIdle /\ hist = [u \in Users |-> NoWrite]
  /\ runs = [r \in RunIds |-> RunIdle]
  /\ profile = Null /\ clientKey = Null
  /\ net = {} /\ sent = {} /\ auth = [pc |-> "in", prof |-> Null] /\ minted = 0

(* setupKeysIfNeeded(force), lines 87-98: guard and first await. *)
RunStart(r) ==
  /\ NextRun(r)
  /\ auth.pc \in {"in", "signOutDelete", "signOutRemote"}
  /\ clientKey # NoProfile
  /\ \E kind \in {"auto", "force"} :
       runs' = [runs EXCEPT ![r] = [RunIdle EXCEPT !.pc = "awaitGet", !.kind = kind,
                                                   !.seen = clientKey]]
  /\ idb' = Append(idb, Call("getPrivateKey", User, Null, r))
  /\ UNCHANGED <<convs, ledger, view, setupVars, load, sendVars, cipher, store, now, engine, api, hist, profile, clientKey, net, sent,
                 auth, minted>>

(* ChatWindow, lines 214-226: the button is rendered while the page holds  *)
(* no public key.                                                          *)
ButtonClick(r) ==
  /\ NextRun(r)
  /\ auth.pc \in {"in", "signOutDelete", "signOutRemote"}
  /\ ~hasPublicKey(clientKey)
  /\ runs' = [runs EXCEPT ![r] = [RunIdle EXCEPT !.pc = "keygen", !.kind = "button"]]
  /\ UNCHANGED <<convs, ledger, view, setupVars, load, sendVars, cipher, vaultVars, profile, clientKey, net, sent, auth, minted>>

(* generateKeyPair() and the call of savePrivateKey (part_004 114-119,     *)
(* ChatWindow 226-229).                                                    *)
RunGenerate(r) ==
  /\ runs[r].pc = "keygen"
  /\ minted < MaxKeyPairs
  /\ minted' = minted + 1
  /\ runs' = [runs EXCEPT ![r].pc = "awaitSave", ![r].kp = minted + 1]
  /\ idb' = Append(idb, Call("savePrivateKey", User,
                             generateKeyPair(minted + 1).privateKey, r))
  /\ UNCHANGED <<convs, ledger, view, setupVars, load, sendVars, cipher, store, now, engine, api, hist, profile, clientKey, net, sent, auth>>

(* What a run does when the vault call it awaits has settled: after        *)
(* getPrivateKey, part_004 lines 95-112; after savePrivateKey, lines       *)
(* 119-130 and ChatWindow lines 229-236; a rejection goes to the catch.    *)
RunEnd(run, pc) == [run EXCEPT !.pc = pc, !.seen = Null, !.ok = FALSE]

RunAfterVault(run, settled) ==
  IF settled.status = "rejected" THEN RunEnd(run, "failed")
  ELSE IF run.pc = "awaitGet"
       THEN IF settled.value # Null /\ run.kind # "force"
            THEN RunEnd(run, "skipped")
            ELSE IF hasPublicKey(run.seen) /\ run.kind # "force"
                 THEN RunEnd(run, "failed")
                 ELSE [run EXCEPT !.pc = "keygen", !.seen = Null]
  ELSE [run EXCEPT !.pc = "awaitFetch"]

(* The requests a run sends when its vault call has settled. *)
RequestsAfterVault(r, run, settled) ==
  IF run.pc = "awaitSave" /\ settled.status = "resolved"
  THEN {SetupKeysRequest(r, run.kp)} ELSE {}

(* useAuth: after the vault call of signOut (line 168, any outcome) or of  *)
(* handleUserSession (line 108; a rejection leaves profile null).          *)
AuthAfterVault(a, by) ==
  IF by = "signOut" /\ a.pc = "signOutDelete" THEN [a EXCEPT !.pc = "signOutRemote"]
  ELSE IF by = "session" /\ a.pc = "loading" THEN [a EXCEPT !.pc = "in"]
  ELSE a

ClientKeyAfterVault(k, a, by, settled) ==
  IF by = "session" /\ a.pc = "loading"
  THEN IF settled.status = "resolved" THEN a.prof ELSE NoProfile
  ELSE k

(* The oldest pending vault call settles and its caller continues.  A call *)
(* whose page has been unloaded may also be aborted with the connection,   *)
(* and none of its handlers run.                                           *)
FlowStep ==
  /\ idb # <<>>
  /\ LET c == Head(idb) IN
     \E outcome \in Outcomes(c.fn) \cup (IF c.by = "orphan" THEN {"unloaded"} ELSE {}) :
       LET settled == Settled(store, c, outcome)
           requests == IF c.by \in RunIds
                       THEN RequestsAfterVault(c.by, runs[c.by], settled) ELSE {}
       IN /\ store' = StoreAfter(store, c, outcome, now)
          /\ idb' = Tail(idb) \o (IF c.by = "orphan" THEN <<>>
                                  ELSE RefreshCalls(store, c, outcome))
          /\ runs' = IF c.by \in RunIds
                     THEN [runs EXCEPT ![c.by] = RunAfterVault(@, settled)]
                     ELSE runs
          /\ net' = net \cup requests
          /\ sent' = sent \cup requests
          /\ auth' = AuthAfterVault(auth, c.by)
          /\ clientKey' = ClientKeyAfterVault(clientKey, auth, c.by, settled)
  /\ UNCHANGED <<convs, ledger, view, setupVars, load, sendVars, cipher, now, engine, api, hist, profile, minted>>

(* POST /api/auth/setup-keys (route.ts): 401 without a session, 400        *)
(* without a publicKey, 500 when a query fails, otherwise the profile's    *)
(* public_key becomes the publicKey of the body.                           *)
routeStatus(q, queryOk) ==
  IF auth.pc = "out" THEN 401
  ELSE IF "publicKey" \notin DOMAIN JSONparse(q.body) THEN 400
  ELSE IF ~queryOk THEN 500
  ELSE 200

ServerHandle ==
  \E q \in net, queryOk \in BOOLEAN :
    LET status == routeStatus(q, queryOk) IN
      /\ net' = net \ {q}
      /\ profile' = IF status = 200 THEN JSONparse(q.body).publicKey ELSE profile
      /\ runs' = IF runs[q.by].pc = "awaitFetch"
                 THEN [runs EXCEPT ![q.by].pc = "gotResponse", ![q.by].ok = (status = 200)]
                 ELSE runs
      /\ UNCHANGED <<convs, ledger, view, setupVars, load, sendVars, cipher, vaultVars, clientKey, sent, auth, minted>>

(* window.location.reload(): the scripts of the page stop, the calls they  *)
(* left in IndexedDB lose their handlers, and the new page starts useAuth  *)
(* (getSession, then handleUserSession when there is a session).           *)
Unloaded(rs, r) ==
  [x \in RunIds |-> IF x = r THEN RunEnd(rs[x], "done")
                    ELSE IF rs[x].pc \in Finished THEN rs[x]
                    ELSE RunEnd(rs[x], "unloaded")]

Orphaned(q) == [i \in DOMAIN q |-> [q[i] EXCEPT !.by = "orphan"]]

(* handleUserSession (useAuth lines 82-108): fetch the profile, normalise  *)
(* public_key, then getPrivateKey(user.id).                                *)
SessionLoading == [pc |-> "loading", prof |-> profile]
SessionCall == Call("getPrivateKey", User, Null, "session")

(* A run reads the response of its request: part_004 lines 132-149 (the    *)
(* useAuth of this repository exports no refreshProfile), ChatWindow lines *)
(* 238-243.                                                                *)
RunAfterFetch(r) ==
  /\ runs[r].pc = "gotResponse"
  /\ IF ~runs[r].ok
     THEN /\ runs' = [runs EXCEPT ![r] = RunEnd(@, "failed")]
          /\ UNCHANGED <<convs, ledger, view, setupVars, load, idb, auth, clientKey, sent>>
     ELSE /\ runs' = Unloaded(runs, r)
          /\ IF auth.pc = "out"
             THEN /\ idb' = Orphaned(idb)
                  /\ UNCHANGED <<convs, ledger, view, setupVars, load, auth, clientKey, sent>>
             ELSE /\ idb' = Append(Orphaned(idb), SessionCall)
                  /\ auth' = SessionLoading
                  /\ clientKey' = NoProfile
                  /\ sent' = sent \cup {ProfileRequest}
  /\ UNCHANGED <<convs, ledger, view, setupVars, load, sendVars, cipher, store, now, engine, api, hist, profile, net, minted>>

(* signOut, lines 160-169: there is a session, deletePrivateKey is called. *)
SignOutStart ==
  /\ auth.pc = "in"
  /\ auth' = [auth EXCEPT !.pc = "signOutDelete"]
  /\ idb' = Append(idb, Call("deletePrivateKey", User, Null, "signOut"))
  /\ UNCHANGED <<convs, ledger, view, setupVars, load, sendVars, cipher, store, now, engine, api, hist, runs, profile, clientKey, net,
                 sent, minted>>

(* signOut, lines 171-186: supabase.auth.signOut() and its result. *)
SignOutRemote ==
  /\ auth.pc = "signOutRemote"
  /\ \E ok \in BOOLEAN :
       /\ auth' = [auth EXCEPT !.pc = IF ok THEN "out" ELSE "in"]
       /\ clientKey' = IF ok THEN NoProfile ELSE clientKey
  /\ sent' = sent \cup {SignOutRequest}
  /\ UNCHANGED <<convs, ledger, view, setupVars, load, sendVars, cipher, vaultVars, runs, profile, net, minted>>

(* The user signs in again: onAuthStateChange calls handleUserSession. *)
SignIn ==
  /\ auth.pc = "out"
  /\ auth' = SessionLoading
  /\ idb' = Append(idb, SessionCall)
  /\ sent' = sent \cup {ProfileRequest}
  /\ UNCHANGED <<convs, ledger, view, setupVars, load, sendVars, cipher, store, now, engine, api, hist, runs, profile, clientKey, net,
                 minted>>

(* The key-setup flows of a user who stays signed in.                      *)
FlowNext ==
  \/ \E r \in RunIds : RunStart(r) \/ ButtonClick(r) \/ RunGenerate(r) \/ RunAfterFetch(r)
  \/ FlowStep \/ ServerHandle

Spec == FlowInit("healthy") /\ [][FlowNext]_vars

(* The same flows with sign-out and sign-in, on an engine that can fail.   *)
SessionNext ==
  \/ \E r \in RunIds : RunStart(r) \/ ButtonClick(r) \/ RunGenerate(r) \/ RunAfterFetch(r)
  \/ FlowStep \/ ServerHandle
  \/ SignOutStart \/ SignOutRemote \/ SignIn

SpecSession == FlowInit("faulty") /\ [][SessionNext]_vars

(***************************************************************************)
(* Claims about key setup and sign-out.                                    *)
(***************************************************************************)
PrivateHalves == {generateKeyPair(i).privateKey : i \in 1..minted}

HoldsPrivateKey(doc) == \E f \in DOMAIN doc : doc[f] \in PrivateKeys

(* C1: no request that left the client contains a private key: the body   *)
(* of a setup-keys request is exactly the public half of the pair that its *)
(* run generated, and the vault holds nothing but private halves of the    *)
(* generated pairs.                                                        *)
C1_NoPrivateKeyLeavesClient ==
  /\ \A q \in sent :
       IF q.url = "/api/auth/setup-keys"
       THEN /\ ~HoldsPrivateKey(q.body.doc)
            /\ q.body.doc = [publicKey |-> generateKeyPair(runs[q.by].kp).publicKey]
       ELSE q.body = NoBody
  /\ \A u \in DOMAIN store : u = User /\ store[u].privateKey \in PrivateHalves

(* A forced regeneration and the button have both published, and the vault *)
(* holds the private half of the second pair.                              *)
C1_Witness ==
  /\ \E r \in RunIds : runs[r].kind = "force" /\ SetupKeysRequest(r, runs[r].kp) \in sent
  /\ \E r \in RunIds : runs[r].kind = "button" /\ SetupKeysRequest(r, runs[r].kp) \in sent
  /\ StoreHas(store, User) /\ store[User].privateKey = generateKeyPair(2).privateKey
  /\ hasPublicKey(profile)

(* C4: once signOut has completed, the vault holds no private key of the  *)
(* user.                                                                   *)
C4_NoKeyAfterSignOut ==
  auth.pc = "out" => ~StoreHas(store, User)

(***************************************************************************)
(* Sending a message: useMessagesSimple.sendMessage (pairwise mode) and    *)
(* useMessages.sendMessage (conversation-key mode), for user u1 in one     *)
(* conversation with u2.  Key pair 1 is u1's, key pair 2 is u2's.          *)
(***************************************************************************)
MaxSends == 2
Conv == "c1"
Peer == "u2"
SendTexts == {<<97>>, <<233, 55357>>}
NoPayload == [t |-> "nopayload"]

SendIdle == [pc |-> "idle", mode |-> "none", text |-> <<>>, privateKey |-> Null,
             recipientPublicKey |-> Null, enc |-> NoPayload, res |-> "none"]

(* The environments a send can start in: u1 has no keys, has both halves,  *)
(* or has published a key whose private half is not on this device.        *)
SendInit ==
  /\ cipher = CipherIdle
  /\ \E own \in {"none", "both", "publicOnly"} :
       /\ clientKey = IF own = "none" THEN Null ELSE generateKeyPair(1).publicKey
       /\ store = IF own = "both"
                  THEN StorePut(<<>>, savePrivateKeyData(User, generateKeyPair(1).privateKey, 0))
                  ELSE <<>>
  /\ profile = clientKey /\ auth = [pc |-> "in", prof |-> clientKey]
  /\ runs = <<>> /\ net = {} /\ sent = {} /\ minted = 1
  /\ now = 0 /\ idb = <<>> /\ engine = "healthy"
  /\ api = ApiIdle /\ hist = [u \in Users |-> NoWrite]
  /\ send = SendIdle /\ sendNo = 0 /\ outbox = {} /\ inserted = <<>> /\ messages = <<>>
  /\ peerProfileKey = Null /\ peerKeys = Null /\ sentTexts = <<>>
  /\ convKeyRow = Null /\ convKeyCache = Null
  /\ load = [pc |-> "off"]
  /\ setup = <<>> /\ conversation_keys = <<>> /\ keyLog = [minted |-> 0, distributed |-> {}]
  /\ view = ViewOff /\ ledger = LedgerOff /\ convs = ConvsOff

(* !k || k.trim() === '' *)
NoKey(k) == k \in {Null, Undefined, EmptyString}

(* The row of the insert, from the locals of sendMessage with the text. *)
outboundRowWithText(s) ==
  [conversation_id |-> Conv, sender_id |-> User,
   cipher_text |-> s.enc.cipherText, nonce |-> s.enc.nonce, decrypted_text |-> s.text]

(* The row of the insert (part_009 lines 272-277, part_008 lines 237-242). *)
outboundRow(s) ==
  [conversation_id |-> Conv, sender_id |-> User,
   cipher_text |-> s.enc.cipherText, nonce |-> s.enc.nonce]

(* What the insert returns: the stored row with its id and created_at. *)
InsertedMessage(row, id, t) ==
  [id |-> id, conversation_id |-> row.conversation_id, sender_id |-> row.sender_id,
   cipher_text |-> row.cipher_text, nonce |-> row.nonce, created_at |-> t]

(* newMessage (part_009 lines 289-293). *)
NewMessage(insertedMessage, text) ==
  [id |-> insertedMessage.id, conversation_id |-> insertedMessage.conversation_id,
   sender_id |-> insertedMessage.sender_id, cipher_text |-> insertedMessage.cipher_text,
   nonce |-> insertedMessage.nonce, created_at |-> insertedMessage.created_at,
   decrypted_text |-> text]

(* A sendMessage that reports success whatever happened. *)
SendReturnTrue(s, res) == [SendIdle EXCEPT !.mode = s.mode, !.res = "true"]

SendReturn(s, res) == [SendIdle EXCEPT !.mode = s.mode, !.res = res]

(* The other participant publishes a key (their own key setup). *)
PeerPublishes ==
  /\ peerProfileKey = Null
  /\ peerProfileKey' = generateKeyPair(2).publicKey
  /\ UNCHANGED <<convs, ledger, view, setupVars, load, cipher, vaultVars, flowVars, send, sendNo, outbox, inserted, messages,
                 peerKeys, sentTexts, convKeyRow, convKeyCache>>

(* sendMessage, part_009 lines 174-196: the guards and getPrivateKey. *)
SendStartPairwise ==
  /\ send.pc = "idle"
  /\ sendNo < MaxSends
  /\ sendNo' = sendNo + 1
  /\ \E text \in SendTexts :
       IF NoKey(clientKey)
       THEN /\ send' = SendReturn([mode |-> "pairwise"], "false")
            /\ idb' = idb
       ELSE /\ send' = [SendIdle EXCEPT !.pc = "awaitKey", !.mode = "pairwise",
                                        !.text = text]
            /\ idb' = Append(idb, Call("getPrivateKey", User, Null, "send"))
  /\ UNCHANGED <<convs, ledger, view, setupVars, load, cipher, flowVars, store, now, engine, api, hist, outbox, inserted,
                 messages, peerProfileKey, peerKeys, sentTexts, convKeyRow, convKeyCache>>

(***************************************************************************)
(* Sealed boxes (part_010 lines 90-137).  libsodium-wrappers converts      *)
(* every buffer argument with _any_to_Uint8Array, which accepts a          *)
(* Uint8Array or a string and throws a TypeError for anything else.        *)
(***************************************************************************)
IsUint8Array(x) ==
  x.t \in {"pk", "sk", "ck", "nonce", "raw", "box", "secretbox", "sealed", "utf8"}

crypto_box_seal(m, pk) == [t |-> "sealed", to |-> pk.id, m |-> m]

crypto_box_seal_open(c, publicKey, secretKey) ==
  IF ~IsUint8Array(publicKey) THEN Throw("TypeError: unsupported input type for publicKey")
  ELSE IF ~IsUint8Array(secretKey) THEN Throw("TypeError: unsupported input type for privateKey")
  ELSE IF c.t = "sealed" /\ publicKey.t = "pk" /\ secretKey.t = "sk"
          /\ c.to = publicKey.id /\ c.to = secretKey.id
       THEN [ok |-> TRUE, bytes |-> c.m]
  ELSE Throw("incorrect key pair for the given ciphertext")

encryptConversationKey(conversationKey, userPublicKey) ==
  IF ~IsBase64(conversationKey) \/ ~IsBase64(userPublicKey)
  THEN Throw("invalid base64")
  ELSE IF ByteLength(from_base64(userPublicKey)) # crypto_box_PUBLICKEYBYTES
  THEN Throw("invalid publicKey length")
  ELSE [ok |-> TRUE,
        encryptedKey |-> to_base64(crypto_box_seal(from_base64(conversationKey),
                                                   from_base64(userPublicKey)))]

(* Line 133 passes the object { publicKey, privateKey } where the public   *)
(* key is expected, and no private key.                                    *)
decryptConversationKey(encryptedKey, userPrivateKey, userPublicKey) ==
  IF ~IsBase64(userPrivateKey) \/ ~IsBase64(userPublicKey) \/ ~IsBase64(encryptedKey)
  THEN Throw("invalid base64")
  ELSE
  LET keyPair == [t |-> "object", publicKey |-> from_base64(userPublicKey),
                  privateKey |-> from_base64(userPrivateKey)]
      decrypted == crypto_box_seal_open(from_base64(encryptedKey), keyPair, Undefined)
  IN IF decrypted.ok THEN [ok |-> TRUE, key |-> to_base64(decrypted.bytes)]
     ELSE decrypted

(* The conversation key has been minted and sealed for u1 (part_007,       *)
(* setupConversationKey).                                                  *)
ConversationKeySealed ==
  /\ convKeyRow = Null
  /\ ~NoKey(profile)
  /\ convKeyRow' = encryptConversationKey(generateConversationKey(1), profile).encryptedKey
  /\ UNCHANGED <<convs, ledger, view, setupVars, load, cipher, vaultVars, flowVars, send, sendNo, outbox, inserted, messages,
                 peerProfileKey, peerKeys, sentTexts, convKeyCache>>

(* loadConversations caches the peer's key when it sees it on the profile  *)
(* (part_007 lines 249-265).                                               *)
CachePeerKey ==
  /\ ~NoKey(peerProfileKey)
  /\ peerKeys = Null
  /\ peerKeys' = peerProfileKey
  /\ UNCHANGED <<convs, ledger, view, setupVars, load, cipher, vaultVars, flowVars, send, sendNo, outbox, inserted, messages,
                 peerProfileKey, sentTexts, convKeyRow, convKeyCache>>

(* Encrypt and issue the insert: part_009 lines 258-282 (pairwise),        *)
(* part_008 lines 232-242 (conversation key).                              *)
Encrypted(s, key, rnd) ==
  LET r == IF s.mode = "pairwise"
           THEN encryptMessage(s.text, key, s.privateKey, rnd)
           ELSE encryptMessageWithConversationKey(s.text, key, rnd)
  IN IF r.ok
     THEN [s EXCEPT !.pc = "awaitInsert", !.recipientPublicKey = key, !.enc = r.payload]
     ELSE SendReturn(s, "false")

RowsSent(s) == IF s.pc = "awaitInsert" THEN {outboundRow(s)} ELSE {}

(* useMessages.getConversationKey after getPrivateKey (part_008 lines      *)
(* 47-69) and the rest of sendMessage (lines 228-242).                     *)
AfterKeyConversation(s, settled, rnd) ==
  IF settled.status = "rejected" \/ NoKey(settled.value) THEN SendReturn(s, "false")
  ELSE LET k == decryptConversationKey(convKeyRow, settled.value, clientKey)
       IN IF k.ok THEN Encrypted([s EXCEPT !.privateKey = settled.value], k.key, rnd)
          ELSE SendReturn(s, "false")

(* useMessagesSimple.sendMessage after getPrivateKey (part_009 lines       *)
(* 196-210).                                                               *)
AfterKeyPairwise(s, settled) ==
  IF settled.status = "rejected" \/ NoKey(settled.value) THEN SendReturn(s, "false")
  ELSE [s EXCEPT !.pc = "awaitParticipants", !.privateKey = settled.value]

CacheAfterKey(cache, s, settled) ==
  IF s.mode = "conversation" /\ settled.status = "resolved" /\ ~NoKey(settled.value)
     /\ decryptConversationKey(convKeyRow, settled.value, clientKey).ok
  THEN decryptConversationKey(convKeyRow, settled.value, clientKey).key
  ELSE cache

(* The oldest pending vault call settles; sendMessage continues. *)
SendVaultStep ==
  /\ idb # <<>>
  /\ LET c == Head(idb) IN
     \E outcome \in Outcomes(c.fn), rnd \in Nonces :
       LET settled == Settled(store, c, outcome)
           after == IF c.by # "send" THEN send
                    ELSE IF send.mode = "pairwise" THEN AfterKeyPairwise(send, settled)
                    ELSE AfterKeyConversation(send, settled, rnd)
       IN /\ store' = StoreAfter(store, c, outcome, now)
          /\ idb' = Tail(idb) \o RefreshCalls(store, c, outcome)
          /\ send' = after
          /\ outbox' = outbox \cup (IF c.by = "send" THEN RowsSent(after) ELSE {})
          /\ convKeyCache' = IF c.by = "send" THEN CacheAfterKey(convKeyCache, send, settled)
                             ELSE convKeyCache
  /\ UNCHANGED <<convs, ledger, view, setupVars, load, cipher, flowVars, now, engine, api, hist, sendNo, inserted, messages,
                 peerProfileKey, peerKeys, sentTexts, convKeyRow>>

(* part_009 lines 203-266: the participants query has answered.  The     *)
(* answer is null or short, or it names the peer, with the peer's profile  *)
(* or without it.                                                          *)
SendParticipants ==
  /\ send.pc = "awaitParticipants"
  /\ \E reply \in {"none", "profile", "noProfile"}, rnd \in Nonces :
       LET fromProfile == IF reply = "profile" THEN peerProfileKey ELSE Undefined
           key == IF NoKey(fromProfile) THEN peerKeys ELSE fromProfile
           after == IF reply = "none" THEN SendReturn(send, "false")
                    ELSE IF NoKey(key) THEN [send EXCEPT !.pc = "awaitProfile"]
                    ELSE Encrypted(send, key, rnd)
       IN /\ send' = after
          /\ peerKeys' = IF reply # "none" /\ ~NoKey(key) THEN key ELSE peerKeys
          /\ outbox' = outbox \cup RowsSent(after)
  /\ UNCHANGED <<convs, ledger, view, setupVars, load, cipher, vaultVars, flowVars, sendNo, inserted, messages, peerProfileKey,
                 sentTexts, convKeyRow, convKeyCache>>

(* part_009 lines 233-266: the direct query of the peer's profile has      *)
(* answered.                                                               *)
SendProfile ==
  /\ send.pc = "awaitProfile"
  /\ \E found \in BOOLEAN, rnd \in Nonces :
       LET key == IF found /\ ~NoKey(peerProfileKey) THEN peerProfileKey ELSE Null
           after == IF NoKey(key) THEN SendReturn(send, "false")
                    ELSE Encrypted(send, key, rnd)
       IN /\ send' = after
          /\ peerKeys' = IF NoKey(key) THEN peerKeys ELSE key
          /\ outbox' = outbox \cup RowsSent(after)
  /\ UNCHANGED <<convs, ledger, view, setupVars, load, cipher, vaultVars, flowVars, sendNo, inserted, messages, peerProfileKey,
                 sentTexts, convKeyRow, convKeyCache>>

(* The insert has answered: part_009 lines 284-301, part_008 lines         *)
(* 244-260.                                                                *)
SendInsertReply ==
  /\ send.pc = "awaitInsert"
  /\ \E insertError \in BOOLEAN :
       LET insertedMessage == InsertedMessage(outboundRow(send), Len(inserted) + 1, now)
       IN IF insertError
          THEN /\ send' = SendReturn(send, "false")
               /\ UNCHANGED <<convs, ledger, view, setupVars, load, inserted, messages, sentTexts>>
          ELSE /\ send' = SendReturn(send, "true")
               /\ inserted' = Append(inserted, insertedMessage)
               /\ IF send.mode = "pairwise"
                  THEN /\ messages' = Append(messages, NewMessage(insertedMessage, send.text))
                       /\ sentTexts' = [i \in DOMAIN sentTexts \cup {insertedMessage.id} |->
                                          IF i = insertedMessage.id THEN send.text
                                          ELSE sentTexts[i]]
                  ELSE UNCHANGED <<convs, ledger, view, setupVars, load, messages, sentTexts>>
  /\ UNCHANGED <<convs, ledger, view, setupVars, load, cipher, vaultVars, flowVars, sendNo, outbox, peerProfileKey, peerKeys,
                 convKeyRow, convKeyCache>>

(* useMessages.sendMessage, part_008 lines 218-226, and getConversationKey *)
(* lines 27-43: the cached key, or the query of the sealed record.         *)
SendStartConversation ==
  /\ send.pc = "idle"
  /\ sendNo < MaxSends
  /\ sendNo' = sendNo + 1
  /\ \E text \in SendTexts, rnd \in Nonces :
       LET s == [SendIdle EXCEPT !.mode = "conversation", !.text = text]
           after == IF NoKey(convKeyCache) THEN [s EXCEPT !.pc = "awaitKeyRow"]
                    ELSE Encrypted(s, convKeyCache, rnd)
       IN /\ send' = after
          /\ outbox' = outbox \cup RowsSent(after)
  /\ UNCHANGED <<convs, ledger, view, setupVars, load, cipher, vaultVars, flowVars, inserted, messages, peerProfileKey,
                 peerKeys, sentTexts, convKeyRow, convKeyCache>>

(* getConversationKey, part_008 lines 36-47: the query of the sealed       *)
(* record has answered.                                                    *)
SendKeyRow ==
  /\ send.pc = "awaitKeyRow"
  /\ \E keyError \in BOOLEAN :
       IF keyError \/ convKeyRow = Null
       THEN /\ send' = SendReturn(send, "false")
            /\ idb' = idb
       ELSE /\ send' = [send EXCEPT !.pc = "awaitKey"]
            /\ idb' = Append(idb, Call("getPrivateKey", User, Null, "send"))
  /\ UNCHANGED <<convs, ledger, view, setupVars, load, cipher, flowVars, store, now, engine, api, hist, sendNo, outbox, inserted,
                 messages, peerProfileKey, peerKeys, sentTexts, convKeyRow, convKeyCache>>

SendNext ==
  \/ SendStartPairwise \/ SendParticipants \/ SendProfile
  \/ SendStartConversation \/ SendKeyRow
  \/ SendVaultStep \/ SendInsertReply
  \/ PeerPublishes \/ CachePeerKey \/ ConversationKeySealed

SpecSend == SendInit /\ [][SendNext]_vars

(***************************************************************************)
(* Claims about sending.                                                   *)
(***************************************************************************)
(* C2: every row that leaves the client has exactly the fields            *)
(* conversation_id, sender_id, cipher_text and nonce; the first two are    *)
(* the conversation and the sender, the last two are what the encryption   *)
(* call of that send returned; no field of a row is the plaintext.         *)
C2_OutboundRowIsCiphertextOnly ==
  [][\A row \in outbox' \ outbox :
       /\ DOMAIN row = {"conversation_id", "sender_id", "cipher_text", "nonce"}
       /\ row.conversation_id = Conv /\ row.sender_id = User
       /\ send'.enc # NoPayload
       /\ row.cipher_text = send'.enc.cipherText /\ row.nonce = send'.enc.nonce
       /\ row.cipher_text.t = "b64" /\ row.cipher_text.of.t \in {"box", "secretbox"}
       /\ row.nonce \in {to_base64(NonceBytes(n)) : n \in Nonces}]_vars

(* Two pairwise sends of the same text went out as two different rows, and *)
(* the list holds the texts.                                               *)
C2_Witness ==
  /\ Cardinality(outbox) = 2
  /\ Len(messages) = 2
  /\ messages[1].decrypted_text = messages[2].decrypted_text
  /\ send.res = "true"


(***************************************************************************)
(* Key material.  The strings that can be handed over as a key: the        *)
(* base64 of 32 bytes (a public key, a private key, a conversation key),   *)
(* the base64 of a byte string of another length, text that is not base64  *)
(* (a character outside the alphabet, missing padding), the empty string;  *)
(* and, for validatePublicKey called from untyped code, null and           *)
(* undefined.                                                              *)
(***************************************************************************)
ThirtyTwoByteKeys ==
  UNION {{generateKeyPair(i).publicKey, generateKeyPair(i).privateKey,
          generateConversationKey(i)} : i \in KeyPairIds}
WrongLengthKeys ==
  {to_base64(NonceBytes(1)), to_base64(RawBytes(16)), to_base64(RawBytes(64)),
   to_base64(RawBytes(crypto_box_PUBLICKEYBYTES - 1)),
   to_base64(RawBytes(crypto_box_PUBLICKEYBYTES + 1))}
MalformedBase64 == {[t |-> "text", s |-> "not*base64"], [t |-> "text", s |-> "QUJDRA"]}
MalformedKeys == WrongLengthKeys \cup MalformedBase64
KeyStrings == ThirtyTwoByteKeys \cup MalformedKeys \cup {EmptyString}
NotStrings == {Null, Undefined}

(* validatePublicKey accepting whatever from_base64 decodes. *)
validatePublicKeyAnyLength(publicKeyBase64) == IsBase64(publicKeyBase64)

(* keys.ts lines 56-65: from_base64 throws on null, undefined and text     *)
(* that is not base64, and the catch returns false.                        *)
validatePublicKey(publicKeyBase64) ==
  IF ~IsBase64(publicKeyBase64) THEN FALSE
  ELSE ByteLength(from_base64(publicKeyBase64)) = crypto_box_PUBLICKEYBYTES

(* route.ts line 30: !publicKey || typeof publicKey !== 'string' *)
publicKeyMissing(publicKey) == publicKey \in {Null, Undefined, EmptyString}

(* POST /api/auth/setup-keys of a signed-in user, the queries succeeding:  *)
(* route.ts lines 27-68.                                                   *)
setupKeysPOST(publicKey) ==
  IF publicKeyMissing(publicKey) THEN [ok |-> FALSE, status |-> 400, err |-> "Chave pública é obrigatória"]
  ELSE [ok |-> TRUE, status |-> 200, public_key |-> publicKey]

(* The functions that take key material, one argument at a time. *)
KeyOps ==
  {"encryptMessage.recipientPublicKey", "encryptMessage.senderPrivateKey",
   "decryptMessage.senderPublicKey", "decryptMessage.recipientPrivateKey",
   "encryptMessageWithConversationKey.conversationKey",
   "decryptMessageWithConversationKey.conversationKey",
   "encryptConversationKey.conversationKey", "encryptConversationKey.userPublicKey",
   "decryptConversationKey.userPrivateKey", "decryptConversationKey.userPublicKey",
   "setup-keys.publicKey"}

(* The call of op with k as that argument and good values elsewhere. *)
KeyOpResult(op, k) ==
  LET A == generateKeyPair(1)
      B == generateKeyPair(MaxKeyPairs)
      K == generateConversationKey(1)
      m == <<97>>
      payload == encryptMessage(m, B.publicKey, A.privateKey, 1).payload
      payloadK == encryptMessageWithConversationKey(m, K, 1).payload
      sealed == encryptConversationKey(K, B.publicKey).encryptedKey
  IN CASE op = "encryptMessage.recipientPublicKey" -> encryptMessage(m, k, A.privateKey, 1)
       [] op = "encryptMessage.senderPrivateKey" -> encryptMessage(m, B.publicKey, k, 1)
       [] op = "decryptMessage.senderPublicKey" -> decryptMessage(payload, k, B.privateKey)
       [] op = "decryptMessage.recipientPrivateKey" -> decryptMessage(payload, A.publicKey, k)
       [] op = "encryptMessageWithConversationKey.conversationKey" ->
            encryptMessageWithConversationKey(m, k, 1)
       [] op = "decryptMessageWithConversationKey.conversationKey" ->
            decryptMessageWithConversationKey(payloadK, k)
       [] op = "encryptConversationKey.conversationKey" -> encryptConversationKey(k, B.publicKey)
       [] op = "encryptConversationKey.userPublicKey" -> encryptConversationKey(K, k)
       [] op = "decryptConversationKey.userPrivateKey" ->
            decryptConversationKey(sealed, k, B.publicKey)
       [] op = "decryptConversationKey.userPublicKey" ->
            decryptConversationKey(sealed, B.privateKey, k)
       [] op = "setup-keys.publicKey" -> setupKeysPOST(k)

(* In each of these functions the sodium.crypto_* call follows the         *)
(* from_base64 conversions with nothing in between, so it is made exactly  *)
(* when the conversion of the argument did not throw.                      *)
PrimitiveCalled(op, k) == op # "setup-keys.publicKey" /\ IsBase64(k)

KeysInit ==
  /\ cipher = [pc |-> "keys"]
  /\ VaultOff /\ FlowOff /\ SendOff

KeysValidate ==
  /\ cipher.pc = "keys"
  /\ \E s \in KeyStrings \cup NotStrings :
       cipher' = [pc |-> "validated", s |-> s, valid |-> validatePublicKey(s)]
  /\ UNCHANGED <<convs, ledger, view, setupVars, load, vaultVars, flowVars, sendVars>>

(* A conversation key k is sealed for key pair p and unsealed by the owner *)
(* of key pair q.                                                          *)
KeysUnseal ==
  /\ cipher.pc = "keys"
  /\ \E k \in KeyPairIds, p \in KeyPairIds, q \in DecryptKeyIds :
       LET sealed == encryptConversationKey(generateConversationKey(k),
                                            generateKeyPair(p).publicKey).encryptedKey
       IN cipher' = [pc |-> "unsealed", k |-> k, p |-> p, q |-> q,
                     res |-> decryptConversationKey(sealed, generateKeyPair(q).privateKey,
                                                    generateKeyPair(q).publicKey)]
  /\ UNCHANGED <<convs, ledger, view, setupVars, load, vaultVars, flowVars, sendVars>>

KeysUse ==
  /\ cipher.pc = "keys"
  /\ \E op \in KeyOps, k \in MalformedKeys :
       cipher' = [pc |-> "used", op |-> op, s |-> k, res |-> KeyOpResult(op, k),
                  primitive |-> PrimitiveCalled(op, k)]
  /\ UNCHANGED <<convs, ledger, view, setupVars, load, vaultVars, flowVars, sendVars>>

KeysNext == KeysValidate \/ KeysUnseal \/ KeysUse
SpecKeys == KeysInit /\ [][KeysNext]_vars

(* The errors the decrypt functions throw when decryption fails. *)
DecryptionFailed ==
  {"Falha ao descriptografar mensagem. Verifique as chaves.",
   "Falha ao descriptografar mensagem. Verifique a chave da conversa.",
   "incorrect key pair for the given ciphertext"}

(* C13: a conversation key sealed for P's public key comes back unchanged *)
(* from decryptConversationKey with P's key pair, and with any other key   *)
(* pair the call fails with the decryption error.                          *)
C13_UnsealOwnKey ==
  cipher.pc = "unsealed" =>
    IF cipher.q = cipher.p
    THEN cipher.res.ok /\ cipher.res.key = generateConversationKey(cipher.k)
    ELSE ~cipher.res.ok /\ cipher.res.err \in DecryptionFailed

(* C15: validatePublicKey returns true exactly for the base64 of 32       *)
(* bytes, false for every other input, and does not throw.                 *)
C15_ValidatePublicKey ==
  cipher.pc = "validated" =>
    /\ cipher.valid \in BOOLEAN
    /\ cipher.valid = (cipher.s \in ThirtyTwoByteKeys)

C15_Witness ==
  /\ cipher.pc = "validated"
  /\ cipher.s = to_base64(RawBytes(crypto_box_PUBLICKEYBYTES - 1))
  /\ ~cipher.valid

C15_WitnessValid ==
  /\ cipher.pc = "validated"
  /\ cipher.s = generateKeyPair(1).publicKey
  /\ cipher.valid

(* C16: key material that is not base64 or has the wrong length is        *)
(* rejected in every function that takes it and by the route that          *)
(* publishes a public key, before a crypto primitive is called, and with   *)
(* an error that is not the decryption error.                              *)
C16_MalformedKeyRejected ==
  cipher.pc = "used" =>
    /\ ~cipher.res.ok
    /\ cipher.res.err \notin DecryptionFailed
    /\ ~cipher.primitive


(***************************************************************************)
(* Loading and decrypting messages: loadMessages / decryptMessages of      *)
(*   "simple"        useMessagesSimple (part_009 lines 32-169),            *)
(*   "conversation"  useMessages with a conversation key (part_008 lines   *)
(*                   27-126 and 186-216),                                  *)
(*   "pairwise"      lib/hooks/useMessages.ts (lines 21-81).               *)
(* The signed-in user u1 holds key pair 1, the peer u2 key pair 2; the     *)
(* conversation key of the conversation is key 1.  The rows of the         *)
(* messages table were written by the peer's device or by this one.        *)
(***************************************************************************)
MaxBatch == 2
LoadHooks == {"simple", "conversation", "pairwise"}
Own == generateKeyPair(1)
PeerPair == generateKeyPair(2)
Outsider == generateKeyPair(MaxKeyPairs + 1)

(* What a stored message is: sent by the peer to this user ("good"), by    *)
(* the peer under a key this user has no part in ("wrongKey"), with its    *)
(* ciphertext or its nonce damaged in the store ("tampered",               *)
(* "truncatedNonce"), or sent by this user ("own").                        *)
MessageKinds == {"good", "wrongKey", "tampered", "truncatedNonce", "own"}
Described ==
  {[kind |-> "good", m |-> m] : m \in SendTexts}
    \cup {[kind |-> k, m |-> <<97>>] : k \in MessageKinds \ {"good"}}
Batches == [1..MaxBatch -> Described]

Text(s) == [t |-> "text", units |-> s]
Sentinel(str) == [t |-> "sentinel", str |-> str]

(* The payload the sender's device made for a described message. *)
PayloadOf(hook, d) ==
  LET made ==
        IF hook = "conversation"
        THEN encryptMessageWithConversationKey(
               d.m, generateConversationKey(IF d.kind = "wrongKey" THEN 2 ELSE 1), 1).payload
        ELSE IF d.kind = "own"
             THEN encryptMessage(d.m, PeerPair.publicKey, Own.privateKey, 1).payload
        ELSE encryptMessage(d.m, IF d.kind = "wrongKey" THEN Outsider.publicKey
                                 ELSE Own.publicKey, PeerPair.privateKey, 1).payload
  IN IF d.kind = "tampered"
     THEN [made EXCEPT !.cipherText =
                  to_base64(RawBytes(ByteLength(from_base64(made.cipherText))))]
     ELSE IF d.kind = "truncatedNonce"
     THEN [made EXCEPT !.nonce = to_base64(RawBytes(23))]
     ELSE made

(* Row i of the query of loadMessages, with the joined sender profile. *)
MessageRow(hook, i, d, senderKey) ==
  [id |-> "m" \o ToString(i), conversation_id |-> Conv,
   sender_id |-> IF d.kind = "own" THEN User ELSE Peer,
   cipher_text |-> PayloadOf(hook, d).cipherText, nonce |-> PayloadOf(hook, d).nonce,
   sender |-> [public_key |-> IF d.kind = "own" THEN profile ELSE senderKey]]

LoadIdle == [pc |-> "idle"]

LoadInit ==
  /\ cipher = CipherIdle
  /\ \E own \in {"none", "both", "publicOnly"} :
       /\ clientKey = IF own = "none" THEN Null ELSE Own.publicKey
       /\ store = IF own = "both"
                  THEN StorePut(<<>>, savePrivateKeyData(User, Own.privateKey, 0))
                  ELSE <<>>
  /\ profile = clientKey /\ auth = [pc |-> "in", prof |-> clientKey]
  /\ runs = <<>> /\ net = {} /\ sent = {} /\ minted = 1
  /\ now = 0 /\ idb = <<>> /\ engine = "healthy"
  /\ api = ApiIdle /\ hist = [u \in Users |-> NoWrite]
  /\ send = [pc |-> "off"] /\ sendNo = 0 /\ outbox = {} /\ inserted = <<>> /\ messages = <<>>
  /\ peerProfileKey \in {Null, PeerPair.publicKey}
  /\ peerKeys = Null
  /\ sentTexts = [id \in {"m1"} |-> <<97>>]
  /\ convKeyRow \in {Null, encryptConversationKey(generateConversationKey(1),
                                                  Own.publicKey).encryptedKey}
  /\ convKeyCache = Null
  /\ load = LoadIdle
  /\ setup = <<>> /\ conversation_keys = <<>> /\ keyLog = [minted |-> 0, distributed |-> {}]
  /\ view = ViewOff /\ ledger = LedgerOff /\ convs = ConvsOff

(* msg with decrypted_text set. *)
WithText(msg, text) ==
  [f \in DOMAIN msg \cup {"decrypted_text"} |->
     IF f = "decrypted_text" THEN text ELSE msg[f]]

TaskDone(key, msg) == [pc |-> "done", key |-> key, out |-> msg]
TaskAwait(pc, key, msg) == [pc |-> pc, key |-> key, out |-> msg]

(* The callback of messagesToDecrypt.map up to its first await.            *)
(* part_009 lines 86-134, part_008 lines 94-103, useMessages.ts lines      *)
(* 41-46.  Rows come from the store without decrypted_text, so the         *)
(* "already decrypted" return is never taken.                              *)
TaskStart(hook, msg, cached) ==
  IF hook = "conversation" THEN TaskAwait("awaitDecrypt", Null, msg)
  ELSE IF hook = "pairwise" THEN TaskAwait("awaitProfile", Null, msg)
  ELSE IF msg.sender_id = User
  THEN IF msg.id \in DOMAIN sentTexts
       THEN TaskDone(Null, WithText(msg, Text(sentTexts[msg.id])))
       ELSE TaskDone(Null, WithText(msg, Sentinel("[Você enviou uma mensagem]")))
  ELSE LET senderPublicKey == IF NoKey(msg.sender.public_key) THEN cached
                              ELSE msg.sender.public_key
       IN IF NoKey(senderPublicKey) THEN TaskAwait("awaitProfile", Null, msg)
          ELSE TaskAwait("awaitDecrypt", senderPublicKey, msg)

(* The callback after the sender's profile answered: part_009 lines        *)
(* 121-134, useMessages.ts lines 48-52.                                    *)
TaskAfterProfile(hook, task, publicKey) ==
  IF NoKey(publicKey)
  THEN TaskDone(Null, WithText(task.out,
         IF hook = "simple" THEN Sentinel("[Chave pública do remetente não encontrada]")
         ELSE Sentinel("[Não foi possível descriptografar]")))
  ELSE TaskAwait("awaitDecrypt", publicKey, task.out)

(* The callback after decryptMessage / decryptMessageWithConversationKey   *)
(* settled: part_009 lines 136-160, part_008 lines 100-121,                *)
(* useMessages.ts lines 54-73.                                             *)
TaskAfterDecrypt(hook, task, privateKey, conversationKey) ==
  LET encrypted == [cipherText |-> task.out.cipher_text, nonce |-> task.out.nonce]
      dec == IF hook = "conversation"
             THEN decryptMessageWithConversationKey(encrypted, conversationKey)
             ELSE decryptMessage(encrypted, task.key, privateKey)
  IN IF dec.ok THEN TaskDone(task.key, WithText(task.out, Text(dec.text)))
     ELSE TaskDone(task.key, WithText(task.out, Sentinel("[Erro ao descriptografar]")))

(* Promise.all with the results in the reverse of the input order. *)
PromiseAllReversed(tasks) == [i \in DOMAIN tasks |-> tasks[Len(tasks) + 1 - i].out]

(* Promise.all: the results in the order of the input. *)
PromiseAll(tasks) == [i \in DOMAIN tasks |-> tasks[i].out]

(* decryptMessages has returned result; how and keys record the path it   *)
(* took and the sender key each callback used.                             *)
LoadReturn(l, how, result, keys) ==
  [pc |-> "done", hook |-> l.hook, batch |-> l.batch, rows |-> l.rows, how |-> how,
   result |-> result, keys |-> keys]

(* decryptMessages with the tasks in their current state: it returns when  *)
(* every task has. *)
LoadTasks(l, privateKey, conversationKey, tasks) ==
  IF \A i \in DOMAIN tasks : tasks[i].pc = "done"
  THEN LoadReturn(l, "decrypted", PromiseAll(tasks), [i \in DOMAIN tasks |-> tasks[i].key])
  ELSE [pc |-> "tasks", hook |-> l.hook, batch |-> l.batch, rows |-> l.rows,
        privateKey |-> privateKey, conversationKey |-> conversationKey, tasks |-> tasks]

(* part_008 lines 77-83. *)
KeyNotAvailable(l, why) ==
  LoadReturn(l, why,
    [i \in DOMAIN l.rows |-> WithText(l.rows[i], Sentinel("[Chave de conversa não disponível]"))],
    <<>>)

(* setMessages(decryptedMessages) of loadMessages / loadMessagesData. *)
MessagesAfter(l, old) == IF l.pc = "done" THEN l.result ELSE old

(* loadMessages: the query has answered with the rows, decryptMessages     *)
(* runs to its first await.                                                *)
LoadStart ==
  /\ load.pc = "idle"
  /\ \E hook \in LoadHooks, batch \in Batches :
       LET rows == [i \in 1..MaxBatch |-> MessageRow(hook, i, batch[i], peerProfileKey)]
           l == [pc |-> "start", hook |-> hook, batch |-> batch, rows |-> rows]
           after ==
             IF hook = "simple" /\ NoKey(clientKey) THEN LoadReturn(l, "noPublicKey", rows, <<>>)
             ELSE IF hook = "conversation"
             THEN IF NoKey(convKeyCache)
                  THEN [pc |-> "awaitKeyRow", hook |-> hook, batch |-> batch, rows |-> rows]
                  ELSE LoadTasks(l, Null, convKeyCache,
                                 [i \in 1..MaxBatch |-> TaskStart(hook, rows[i], peerKeys)])
             ELSE [pc |-> "awaitKey", hook |-> hook, batch |-> batch, rows |-> rows]
       IN /\ load' = after
          /\ idb' = IF after.pc = "awaitKey"
                    THEN Append(idb, Call("getPrivateKey", User, Null, "load"))
                    ELSE idb
          /\ messages' = MessagesAfter(after, messages)
  /\ UNCHANGED <<convs, ledger, view, setupVars, cipher, flowVars, store, now, engine, api, hist, send, sendNo, outbox,
                 inserted, peerProfileKey, peerKeys, sentTexts, convKeyRow, convKeyCache>>

(* getConversationKey, part_008 lines 36-47: the sealed record answered. *)
LoadKeyRow ==
  /\ load.pc = "awaitKeyRow"
  /\ \E keyError \in BOOLEAN :
       LET after == IF keyError \/ convKeyRow = Null THEN KeyNotAvailable(load, "noSealedRecord")
                    ELSE [load EXCEPT !.pc = "awaitKey"]
       IN /\ load' = after
          /\ idb' = IF after.pc = "awaitKey"
                    THEN Append(idb, Call("getPrivateKey", User, Null, "load"))
                    ELSE idb
          /\ messages' = MessagesAfter(after, messages)
  /\ UNCHANGED <<convs, ledger, view, setupVars, cipher, flowVars, store, now, engine, api, hist, send, sendNo, outbox,
                 inserted, peerProfileKey, peerKeys, sentTexts, convKeyRow, convKeyCache>>

(* decryptMessages after getPrivateKey settled: part_009 lines 72-78,      *)
(* part_008 lines 47-69 and 76-83, useMessages.ts lines 25-31.             *)
LoadAfterKey(l, settled) ==
  IF l.hook = "conversation"
  THEN IF settled.status = "rejected" \/ NoKey(settled.value)
       THEN KeyNotAvailable(l, "noPrivateKey")
       ELSE LET k == decryptConversationKey(convKeyRow, settled.value, clientKey)
            IN IF k.ok
               THEN LoadTasks(l, settled.value, k.key,
                              [i \in DOMAIN l.rows |-> TaskStart(l.hook, l.rows[i], peerKeys)])
               ELSE KeyNotAvailable(l, "unsealFailed")
  ELSE IF settled.status = "rejected"
  THEN [pc |-> "failed", hook |-> l.hook, batch |-> l.batch, rows |-> l.rows]
  ELSE IF NoKey(settled.value) THEN LoadReturn(l, "noPrivateKey", l.rows, <<>>)
  ELSE LoadTasks(l, settled.value, Null,
                 [i \in DOMAIN l.rows |-> TaskStart(l.hook, l.rows[i], peerKeys)])

(* The oldest pending vault call settles; decryptMessages continues. *)
LoadVaultStep ==
  /\ idb # <<>>
  /\ LET c == Head(idb) IN
     \E outcome \in Outcomes(c.fn) :
       LET settled == Settled(store, c, outcome)
           after == IF c.by = "load" THEN LoadAfterKey(load, settled) ELSE load
       IN /\ store' = StoreAfter(store, c, outcome, now)
          /\ idb' = Tail(idb) \o RefreshCalls(store, c, outcome)
          /\ load' = after
          /\ messages' = MessagesAfter(after, messages)
          /\ convKeyCache' =
               IF c.by = "load" /\ after.pc = "tasks" /\ load.hook = "conversation"
               THEN after.conversationKey ELSE convKeyCache
  /\ UNCHANGED <<convs, ledger, view, setupVars, cipher, flowVars, now, engine, api, hist, send, sendNo, outbox, inserted,
                 peerProfileKey, peerKeys, sentTexts, convKeyRow>>

(* The profile query of one message's callback answers. *)
LoadTaskProfile ==
  /\ load.pc = "tasks"
  /\ \E i \in DOMAIN load.tasks :
       /\ load.tasks[i].pc = "awaitProfile"
       /\ LET public_key == IF load.tasks[i].out.sender_id = User THEN profile
                            ELSE peerProfileKey
              task == TaskAfterProfile(load.hook, load.tasks[i], public_key)
              after == LoadTasks(load, load.privateKey, load.conversationKey,
                                 [load.tasks EXCEPT ![i] = task])
          IN /\ load' = after
             /\ peerKeys' = IF load.hook = "simple" /\ ~NoKey(public_key)
                            THEN public_key ELSE peerKeys
             /\ messages' = MessagesAfter(after, messages)
  /\ UNCHANGED <<convs, ledger, view, setupVars, cipher, vaultVars, flowVars, send, sendNo, outbox, inserted,
                 peerProfileKey, sentTexts, convKeyRow, convKeyCache>>

(* The decryption of one message's callback settles. *)
LoadTaskDecrypted ==
  /\ load.pc = "tasks"
  /\ \E i \in DOMAIN load.tasks :
       /\ load.tasks[i].pc = "awaitDecrypt"
       /\ LET task == TaskAfterDecrypt(load.hook, load.tasks[i], load.privateKey,
                                       load.conversationKey)
              after == LoadTasks(load, load.privateKey, load.conversationKey,
                                 [load.tasks EXCEPT ![i] = task])
          IN /\ load' = after
             /\ messages' = MessagesAfter(after, messages)
  /\ UNCHANGED <<convs, ledger, view, setupVars, cipher, vaultVars, flowVars, send, sendNo, outbox, inserted,
                 peerProfileKey, peerKeys, sentTexts, convKeyRow, convKeyCache>>

LoadNext ==
  \/ LoadStart \/ LoadKeyRow \/ LoadVaultStep
  \/ LoadTaskProfile \/ LoadTaskDecrypted
  \/ PeerPublishes

SpecLoad == LoadInit /\ [][LoadNext]_vars

(***************************************************************************)
(* Claims about loading.                                                   *)
(***************************************************************************)
ConversationKey == generateConversationKey(1)

(* The described message can be decrypted by this user. *)
Decryptable(hook, d) ==
  IF hook = "conversation" THEN d.kind \in {"good", "own"} ELSE d.kind = "good"

(* The plaintext of the stored message: what decrypting its row on its own *)
(* with the right keys gives. *)
PlaintextOf(hook, d) ==
  IF hook = "conversation"
  THEN decryptMessageWithConversationKey(PayloadOf(hook, d), ConversationKey).text
  ELSE decryptMessage(PayloadOf(hook, d), PeerPair.publicKey, Own.privateKey).text

Decrypted == load.pc = "done" /\ load.how = "decrypted"

(* C17: a batch returns one result per message, with the same ids in the  *)
(* same positions; a message whose decryption fails or whose sender key    *)
(* was not found has a sentinel text, and every other message has its      *)
(* plaintext, in whatever order the decryptions completed.  (The simple    *)
(* hook does not decrypt the user's own messages: C27.)                    *)
C17_BatchIsolation ==
  load.pc = "done" =>
    /\ Len(load.result) = Len(load.rows)
    /\ \A i \in DOMAIN load.rows : load.result[i].id = load.rows[i].id
    /\ load.how = "decrypted" =>
         \A i \in DOMAIN load.rows :
           LET d == load.batch[i]
               text == load.result[i].decrypted_text
               keyFound == load.hook = "conversation" \/ ~NoKey(load.keys[i])
           IN IF load.hook = "simple" /\ d.kind = "own" THEN text.t \in {"text", "sentinel"}
              ELSE IF Decryptable(load.hook, d) /\ keyFound
              THEN text = Text(PlaintextOf(load.hook, d))
              ELSE text.t = "sentinel"

C17_Witness ==
  /\ Decrypted
  /\ load.batch[1].kind = "tampered" /\ load.result[1].decrypted_text.t = "sentinel"
  /\ load.batch[MaxBatch].kind = "good"
  /\ load.result[MaxBatch].decrypted_text = Text(load.batch[MaxBatch].m)

(* C18: when decryptMessages has completed, every message of the batch    *)
(* carries a decrypted text, its plaintext or a sentinel.                  *)
C18_EveryMessageHasText ==
  load.pc = "done" =>
    \A i \in DOMAIN load.result :
      /\ "decrypted_text" \in DOMAIN load.result[i]
      /\ load.result[i].decrypted_text.t \in {"text", "sentinel"}

(* When the user has published a key and holds its private half, every   *)
(* message does get a text.                                                *)
TextOnceKeysProvisioned ==
  (load.pc = "done" /\ load.how \notin {"noPublicKey", "noPrivateKey"}) =>
    \A i \in DOMAIN load.result : "decrypted_text" \in DOMAIN load.result[i]

(* C14: with the conversation key sealed to this user and the user's      *)
(* private key in the vault, a message the peer encrypted with the         *)
(* conversation key is decrypted to exactly the peer's plaintext.          *)
C14_ConversationKeyEndToEnd ==
  (/\ load.pc = "done" /\ load.hook = "conversation"
   /\ load.how \notin {"noSealedRecord", "noPrivateKey"}) =>
    \A i \in DOMAIN load.batch :
      load.batch[i].kind = "good" => load.result[i].decrypted_text = Text(load.batch[i].m)

(***************************************************************************)
(* setupConversationKey (part_007 lines 365-464), called by the            *)
(* participants u1 and u2 of one conversation, each on their own device,   *)
(* and the remote store behind it: the table conversation_keys with        *)
(* UNIQUE(conversation_id, user_id) and the function                       *)
(* insert_conversation_keys.  profile is the public key on u1's profile,   *)
(* peerProfileKey the one on u2's.                                         *)
(***************************************************************************)
MaxSetups == 2
KeyPairOf(u) == IF u = User THEN Own ELSE PeerPair
PublicKeyOf(u) == IF u = User THEN profile ELSE peerProfileKey

SetupIdle == [pc |-> "idle", calls |-> 0, key |-> Null, keyData |-> <<>>, how |-> "none"]

SetupInit ==
  /\ cipher = CipherIdle /\ VaultOff
  /\ runs = <<>> /\ net = {} /\ sent = {} /\ minted = 0
  /\ profile \in {Null, Own.publicKey}
  /\ clientKey = profile /\ auth = [pc |-> "in", prof |-> profile]
  /\ send = [pc |-> "off"] /\ sendNo = 0 /\ outbox = {} /\ inserted = <<>> /\ messages = <<>>
  /\ peerProfileKey \in {Null, PeerPair.publicKey}
  /\ peerKeys = Null /\ sentTexts = <<>> /\ convKeyRow = Null /\ convKeyCache = Null
  /\ load = [pc |-> "off"]
  /\ setup = [u \in Users |-> SetupIdle]
  /\ conversation_keys = <<>>
  /\ keyLog = [minted |-> 0, distributed |-> {}]
  /\ view = ViewOff /\ ledger = LedgerOff /\ convs = ConvsOff

(* The conversation key inside a sealed record, as its owner opens it. *)
KeyInside(encryptedKey, owner) ==
  to_base64(crypto_box_seal_open(from_base64(encryptedKey),
                                 from_base64(KeyPairOf(owner).publicKey),
                                 from_base64(KeyPairOf(owner).privateKey)).bytes)

SetupReturn(s, how) == [s EXCEPT !.pc = "returned", !.how = how]
SetupThrow(s, how) == [s EXCEPT !.pc = "threw", !.how = how]

(* Lines 365-379: the guard, and the query for the caller's own record. *)
SetupStart(u) ==
  /\ setup[u].pc \in {"idle", "returned", "threw"}
  /\ setup[u].calls < MaxSetups
  /\ LET s == [SetupIdle EXCEPT !.calls = setup[u].calls + 1]
     IN setup' = [setup EXCEPT ![u] =
                    IF NoKey(PublicKeyOf(u)) THEN SetupThrow(s, "noPublicKey")
                    ELSE [s EXCEPT !.pc = "awaitExisting"]]
  /\ UNCHANGED <<convs, ledger, view, cipher, vaultVars, flowVars, sendVars, loadVars, conversation_keys, keyLog>>

(* Lines 381-393: the caller's record exists, or the profiles are queried. *)
SetupExisting(u) ==
  /\ setup[u].pc = "awaitExisting"
  /\ setup' = [setup EXCEPT ![u] =
                 IF u \in DOMAIN conversation_keys THEN SetupReturn(@, "existing")
                 ELSE [@ EXCEPT !.pc = "awaitProfiles"]]
  /\ UNCHANGED <<convs, ledger, view, cipher, vaultVars, flowVars, sendVars, loadVars, conversation_keys, keyLog>>

(* Lines 395-414: the participants that have a public key answered; a     *)
(* conversation key is generated and sealed for each of them.              *)
SetupProfiles(u) ==
  /\ setup[u].pc = "awaitProfiles"
  /\ LET participantProfiles == {p \in Users : PublicKeyOf(p) # Null}
         conversationKey == generateConversationKey(keyLog.minted + 1)
         keyData == [p \in participantProfiles |->
                       encryptConversationKey(conversationKey, PublicKeyOf(p)).encryptedKey]
     IN IF participantProfiles = {}
        THEN /\ setup' = [setup EXCEPT ![u] = SetupThrow(@, "noParticipantKey")]
             /\ keyLog' = keyLog
        ELSE /\ setup' = [setup EXCEPT ![u] = [@ EXCEPT !.pc = "awaitRpc",
                                                !.key = conversationKey,
                                                !.keyData = keyData]]
             /\ keyLog' = [keyLog EXCEPT !.minted = @ + 1]
  /\ UNCHANGED <<convs, ledger, view, cipher, vaultVars, flowVars, sendVars, loadVars, conversation_keys>>

(* insert_conversation_keys (add_conversation_keys_rpc.sql lines 9-45):    *)
(* INSERT ... ON CONFLICT (conversation_id, user_id) DO UPDATE for each     *)
(* element of p_keys, in one transaction.                                  *)
insert_conversation_keys(table, p_keys) ==
  [p \in DOMAIN table \cup DOMAIN p_keys |->
     IF p \in DOMAIN p_keys THEN p_keys[p] ELSE table[p]]

(* The conversation keys of the records written. *)
Distributed(p_keys) == {KeyInside(p_keys[p], p) : p \in DOMAIN p_keys}

(* Lines 416-432: the RPC answered, with an error or without. *)
SetupRpc(u) ==
  /\ setup[u].pc = "awaitRpc"
  /\ \E rpcError \in BOOLEAN :
       IF rpcError
       THEN /\ setup' = [setup EXCEPT ![u] =
                           IF u \in DOMAIN @.keyData THEN [@ EXCEPT !.pc = "awaitInsert"]
                           ELSE SetupThrow(@, "noOwnKey")]
            /\ UNCHANGED <<conversation_keys, keyLog>>
       ELSE /\ setup' = [setup EXCEPT ![u] = SetupReturn(@, "rpc")]
            /\ conversation_keys' = insert_conversation_keys(conversation_keys,
                                                             setup[u].keyData)
            /\ keyLog' = [keyLog EXCEPT !.distributed = @ \cup Distributed(setup[u].keyData)]
  /\ UNCHANGED <<convs, ledger, view, cipher, vaultVars, flowVars, sendVars, loadVars>>

(* Lines 433-456: the direct insert of the caller's own record answered;   *)
(* the UNIQUE constraint (add_conversation_keys.sql line 13) rejects a      *)
(* second record of the same user.                                         *)
SetupInsert(u) ==
  /\ setup[u].pc = "awaitInsert"
  /\ \E failure \in BOOLEAN :
       IF failure \/ u \in DOMAIN conversation_keys
       THEN /\ setup' = [setup EXCEPT ![u] = SetupThrow(@, "insertError")]
            /\ UNCHANGED <<conversation_keys, keyLog>>
       ELSE /\ setup' = [setup EXCEPT ![u] = SetupReturn(@, "direct")]
            /\ conversation_keys' =
                 [p \in DOMAIN conversation_keys \cup {u} |->
                    IF p = u THEN setup[u].keyData[u] ELSE conversation_keys[p]]
            /\ keyLog' = [keyLog EXCEPT !.distributed = @ \cup {setup[u].key}]
  /\ UNCHANGED <<convs, ledger, view, cipher, vaultVars, flowVars, sendVars, loadVars>>

(* A participant publishes their public key (their own key setup). *)
ParticipantPublishes ==
  /\ \E u \in Users :
       /\ PublicKeyOf(u) = Null
       /\ IF u = User
          THEN /\ profile' = Own.publicKey
               /\ clientKey' = Own.publicKey
               /\ auth' = [auth EXCEPT !.prof = Own.publicKey]
               /\ UNCHANGED peerProfileKey
          ELSE /\ peerProfileKey' = PeerPair.publicKey
               /\ UNCHANGED <<profile, clientKey, auth>>
  /\ UNCHANGED <<convs, ledger, view, cipher, vaultVars, runs, net, sent, minted, send, sendNo, outbox, inserted,
                 messages, peerKeys, sentTexts, convKeyRow, convKeyCache, loadVars, setupVars>>

SetupNext ==
  \/ \E u \in Users :
       SetupStart(u) \/ SetupExisting(u) \/ SetupProfiles(u) \/ SetupRpc(u) \/ SetupInsert(u)
  \/ ParticipantPublishes

SpecSetup == SetupInit /\ [][SetupNext]_vars

(***************************************************************************)
(* Claims about the setup of the conversation key.                         *)
(***************************************************************************)
(* A call that found the caller's record generated no key and made no      *)
(* record. *)
ExistingRecordShortCircuits ==
  \A u \in DOMAIN setup :
    (setup[u].pc = "returned" /\ setup[u].how = "existing") =>
      (setup[u].key = Null /\ setup[u].keyData = <<>>)

(* C19: a call that finds the caller's sealed record generates no key and *)
(* writes no record, and over every interleaving of the participants'      *)
(* calls at most one conversation key is ever distributed.                 *)
C19_SetupAtMostOnce ==
  /\ ExistingRecordShortCircuits
  /\ Cardinality(keyLog.distributed) <= 1

(* C20: once a call of setupConversationKey has returned, every           *)
(* participant has a sealed record, sealed to that participant's public    *)
(* key.  (The table's UNIQUE constraint is the domain of the function:     *)
(* there is never more than one record per participant.)                   *)
C20_OneRecordPerParticipant ==
  \A u \in DOMAIN setup :
    setup[u].pc = "returned" =>
      \A p \in Users :
        /\ p \in DOMAIN conversation_keys
        /\ from_base64(conversation_keys[p]).to = from_base64(KeyPairOf(p).publicKey).id

(* Every record there is is sealed to its owner's public key. *)
RecordsSealedToOwner ==
  \A p \in DOMAIN conversation_keys :
    from_base64(conversation_keys[p]).to = from_base64(KeyPairOf(p).publicKey).id

(* C21: in every state all sealed records of the conversation open, each *)
(* with its owner's private key, to the same conversation key.             *)
C21_RecordsHoldOneKey ==
  \A p \in DOMAIN conversation_keys, q \in DOMAIN conversation_keys :
    KeyInside(conversation_keys[p], p) = KeyInside(conversation_keys[q], q)

(* C22: the conversation key inside an existing sealed record never       *)
(* changes, whichever participant runs setup afterwards.                   *)
C22_KeyNeverRotated ==
  [][\A p \in DOMAIN conversation_keys :
       /\ p \in DOMAIN conversation_keys'
       /\ KeyInside(conversation_keys'[p], p) = KeyInside(conversation_keys[p], p)]_vars

(***************************************************************************)
(* Claims about the resolution of the conversation key (part_008).         *)
(***************************************************************************)
(* getConversationKey of sendMessage gets the answer of getPrivateKey. *)
SendResolvesKey ==
  /\ send.pc = "awaitKey" /\ send.mode = "conversation"
  /\ idb # <<>> /\ Head(idb).by = "send"
  /\ send'.pc # "awaitKey"

SendGetsKeyRow == send.pc = "awaitKeyRow" /\ send'.pc # "awaitKeyRow"

(* Without a sealed record getConversationKey returns null and caches      *)
(* nothing, and sendMessage returns false without an insert.               *)
AbsentKeyStopsSend ==
  [][(SendGetsKeyRow /\ convKeyRow = Null) =>
       /\ send'.pc = "idle" /\ send'.res = "false"
       /\ outbox' = outbox /\ inserted' = inserted
       /\ convKeyCache' = convKeyCache]_vars

(* C24: without a sealed record of the caller getConversationKey returns  *)
(* absent and caches nothing and sendMessage returns false without an      *)
(* insert; a later attempt, made when the sealed record has been written,  *)
(* resolves the key and goes on to send.                                   *)
C24_AbsentKeyIsRecoverable ==
  [][/\ (SendGetsKeyRow /\ convKeyRow = Null) =>
          /\ send'.pc = "idle" /\ send'.res = "false"
          /\ outbox' = outbox /\ inserted' = inserted
          /\ convKeyCache' = convKeyCache
     /\ (SendResolvesKey /\ sendNo > 1 /\ StoreHas(store, User) /\ convKeyRow # Null) =>
          /\ send'.pc = "awaitInsert"
          /\ ~NoKey(convKeyCache')]_vars

(***************************************************************************)
(* The sender's own key material in pairwise mode.  encryptMessage makes   *)
(* the box with crypto_box_easy(message, nonce, B's public, A's private);  *)
(* decryptMessage opens with crypto_box_open_easy(cipher, nonce, public,   *)
(* private).  Both derive the X25519 shared secret of the two pairs.       *)
(***************************************************************************)
SenderAttempt ==
  /\ cipher.pc = "decrypted" /\ cipher.mode = "pairwise"
  /\ cipher.a # cipher.b
  /\ cipher.y = cipher.a /\ cipher.x \in {cipher.a, cipher.b}

C27_WitnessOwnKeys ==
  /\ SenderAttempt /\ cipher.x = cipher.a
  /\ ~cipher.dec.ok

(***************************************************************************)
(* The chat view: ChatWindow with the hook useMessagesSimple (part_009),   *)
(* for user u1 on one device, over two conversations with u2.  ChatWindow  *)
(* is mounted once (part_003 lines 153-157), so one instance of the hook   *)
(* and one messages list live through every change of conversationId.      *)
(*                                                                         *)
(* inserted is the messages table, messages the hook's list, sentTexts and *)
(* peerKeys the two localStorage caches, store the vault.  view holds      *)
(*   conversationId  the selected conversation, selects the number of      *)
(*                   selections made,                                      *)
(*   clock           the server's clock, which stamps created_at,          *)
(*   loads           calls of loadMessagesData whose query has answered    *)
(*                   and whose setMessages is still to come,               *)
(*   events          realtime INSERT callbacks in flight,                  *)
(*   replies         sendMessage calls whose insert is made and whose      *)
(*                   reply is still to be handled,                         *)
(*   cleared, shown  whether the caches were cleared, and the texts the    *)
(*                   list displayed at that moment (history).              *)
(* The effect at lines 315-457 depends on decryptMessages, a new function  *)
(* at every render, so it runs again after every render and calls          *)
(* loadMessagesData each time; the poll at lines 421-439 calls it too.  A  *)
(* load of the selected conversation can therefore start at any moment.    *)
(* The device's clock stands still, so the refresh getPrivateKey makes     *)
(* rewrites the record it read.                                            *)
(***************************************************************************)
MaxRows == 2
MaxLoads == 1
MaxSelects == 2
Conversations == {"c1", "c2"}
ViewText == <<97>>
(* selectedConversationId before a conversation is selected: null. *)
NoConversation == "null"

ViewIdle ==
  [pc |-> "on", conversationId |-> NoConversation, selects |-> 0, clock |-> 1,
   loads |-> {}, events |-> {},
   replies |-> {}, cleared |-> FALSE, shown |-> <<>>]

ViewInit ==
  /\ cipher = CipherIdle
  /\ clientKey = Own.publicKey /\ profile = Own.publicKey
  /\ auth = [pc |-> "in", prof |-> Own.publicKey]
  /\ store = StorePut(<<>>, savePrivateKeyData(User, Own.privateKey, 0))
  /\ runs = <<>> /\ net = {} /\ sent = {} /\ minted = 1
  /\ now = 0 /\ idb = <<>> /\ engine = "healthy"
  /\ api = ApiIdle /\ hist = [u \in Users |-> NoWrite]
  /\ send = [pc |-> "off"] /\ sendNo = 0 /\ outbox = {} /\ inserted = <<>> /\ messages = <<>>
  /\ peerProfileKey = PeerPair.publicKey
  /\ peerKeys = [c \in Conversations |-> Null]
  /\ sentTexts = <<>>
  /\ convKeyRow = Null /\ convKeyCache = Null
  /\ load = [pc |-> "off"]
  /\ setup = <<>> /\ conversation_keys = <<>> /\ keyLog = [minted |-> 0, distributed |-> {}]
  /\ view = ViewIdle /\ ledger = LedgerOff /\ convs = ConvsOff

(* A row of the table as select('*, sender:profiles') returns it. *)
JoinedRow(r) ==
  [id |-> r.id, conversation_id |-> r.conversation_id, sender_id |-> r.sender_id,
   cipher_text |-> r.cipher_text, nonce |-> r.nonce, created_at |-> r.created_at,
   sender |-> [public_key |-> IF r.sender_id = User THEN profile ELSE peerProfileKey]]

(* .order('created_at', { ascending: true }) *)
RECURSIVE OrderByCreatedAt(_)
OrderByCreatedAt(rows) ==
  IF rows = <<>> THEN <<>>
  ELSE LET least == CHOOSE i \in DOMAIN rows :
                      \A j \in DOMAIN rows :
                        \/ rows[i].created_at < rows[j].created_at
                        \/ rows[i].created_at = rows[j].created_at /\ i <= j
           rest == [k \in 1..(Len(rows) - 1) |-> IF k < least THEN rows[k] ELSE rows[k + 1]]
       IN <<rows[least]>> \o OrderByCreatedAt(rest)

(* The query of loadMessagesData, part_009 lines 40-47. *)
MessagesData(table, conversationId) ==
  OrderByCreatedAt(SelectSeq([i \in DOMAIN table |-> JoinedRow(table[i])],
                             LAMBDA r : r.conversation_id = conversationId))

(* getPrivateKey on the healthy vault. *)
VaultKey(s) == IF StoreHas(s, User) THEN s[User].privateKey ELSE Null
VaultRefreshed(s) ==
  IF StoreHas(s, User) THEN StorePut(s, savePrivateKeyData(User, VaultKey(s), now)) ELSE s

(* One callback of decryptMessages run to its end: part_009 lines 80-166. *)
DecryptOne(msg, privateKey, cached, senderProfileKey) ==
  LET started == TaskStart("simple", msg, cached)
      fetched == IF started.pc = "awaitProfile"
                 THEN TaskAfterProfile("simple", started, senderProfileKey) ELSE started
      done == IF fetched.pc = "awaitDecrypt"
              THEN TaskAfterDecrypt("simple", fetched, privateKey, Null) ELSE fetched
  IN done.out

(* useMessagesSimple.decryptMessages, part_009 lines 67-169. *)
decryptMessages(messagesToDecrypt) ==
  IF NoKey(profile) \/ VaultKey(store) = Null THEN messagesToDecrypt
  ELSE [i \in DOMAIN messagesToDecrypt |->
          DecryptOne(messagesToDecrypt[i], VaultKey(store),
                     peerKeys[messagesToDecrypt[i].conversation_id], peerProfileKey)]

Exists(list, id) == \E i \in DOMAIN list : list[i].id = id

(* prev.map(m => m.id === id ? message : m) *)
Replaced(list, message) ==
  [i \in DOMAIN list |-> IF list[i].id = message.id THEN message ELSE list[i]]

(* The realtime callbacks an insert into conversation c starts: the        *)
(* channel is subscribed for the selected conversation, own inserts        *)
(* included.                                                               *)
EventsOf(id, c) ==
  IF view.conversationId = c THEN {[id |-> id, pc |-> "fetch"]} ELSE {}

(* The user selects a conversation (part_003 lines 34, 44): the effects    *)
(* run for the new conversationId and start its load; the list is kept.    *)
ViewSelect ==
  /\ view.pc = "on"
  /\ \E c \in Conversations :
       /\ c # view.conversationId
       /\ view.selects < MaxSelects
       /\ view' = [view EXCEPT !.conversationId = c, !.selects = @ + 1,
                     !.loads = @ \cup {[conversationId |-> c,
                                        messagesData |-> MessagesData(inserted, c)]}]
  /\ UNCHANGED <<convs, ledger, setupVars, load, cipher, vaultVars, flowVars, sendVars>>

(* loadMessagesData of the selected conversation, up to its query's        *)
(* answer: lines 32-50.                                                    *)
ViewLoadStart ==
  /\ view.pc = "on" /\ view.conversationId # NoConversation
  /\ Cardinality(view.loads) < MaxLoads
  /\ LET l == [conversationId |-> view.conversationId,
               messagesData |-> MessagesData(inserted, view.conversationId)]
     IN /\ l \notin view.loads
        /\ view' = [view EXCEPT !.loads = @ \cup {l}]
  /\ UNCHANGED <<convs, ledger, setupVars, load, cipher, vaultVars, flowVars, sendVars>>

(* loadMessagesData from decryptMessages to setMessages: lines 52-54. *)
ViewLoadDone ==
  /\ view.pc = "on"
  /\ \E l \in view.loads :
       /\ messages' = decryptMessages(l.messagesData)
       /\ view' = [view EXCEPT !.loads = @ \ {l}]
  /\ store' = IF NoKey(profile) THEN store ELSE VaultRefreshed(store)
  /\ UNCHANGED <<convs, ledger, setupVars, load, cipher, now, idb, engine, api, hist, flowVars, send, sendNo,
                 outbox, inserted, peerProfileKey, peerKeys, sentTexts, convKeyRow,
                 convKeyCache>>

(* sendMessage(text) in the selected conversation up to the insert: lines  *)
(* 174-283.  The peer has published a key, so it comes with the            *)
(* participants and is saved in the peer-key cache.  ChatWindow starts no  *)
(* send while one is in progress (ChatWindow.tsx line 44).                 *)
ViewSendInsert ==
  /\ view.pc = "on" /\ view.conversationId # NoConversation
  /\ view.replies = {}
  /\ Len(inserted) < MaxRows
  /\ ~NoKey(profile) /\ VaultKey(store) # Null
  /\ LET enc == encryptMessage(ViewText, peerProfileKey, VaultKey(store), 1)
         c == view.conversationId
         row == [conversation_id |-> c, sender_id |-> User,
                 cipher_text |-> enc.payload.cipherText, nonce |-> enc.payload.nonce]
         insertedMessage == InsertedMessage(row, Len(inserted) + 1, view.clock)
     IN /\ inserted' = Append(inserted, insertedMessage)
        /\ peerKeys' = [peerKeys EXCEPT ![c] = peerProfileKey]
        /\ view' = [view EXCEPT !.clock = @ + 1,
                      !.replies = @ \cup {insertedMessage.id},
                      !.events = @ \cup EventsOf(insertedMessage.id, c)]
  /\ store' = VaultRefreshed(store)
  /\ UNCHANGED <<convs, ledger, setupVars, load, cipher, now, idb, engine, api, hist, flowVars, send, sendNo,
                 outbox, messages, peerProfileKey, sentTexts, convKeyRow, convKeyCache>>

(* sendMessage after the insert answered: lines 284-301. *)
ViewSendReply ==
  /\ view.pc = "on"
  /\ \E id \in view.replies :
       LET newMessage == WithText(JoinedRow(inserted[id]), Text(ViewText))
       IN /\ sentTexts' = [i \in DOMAIN sentTexts \cup {id} |->
                             IF i = id THEN ViewText ELSE sentTexts[i]]
          /\ messages' = Append(messages, newMessage)
          /\ view' = [view EXCEPT !.replies = @ \ {id}]
  /\ UNCHANGED <<convs, ledger, setupVars, load, cipher, vaultVars, flowVars, send, sendNo, outbox, inserted,
                 peerProfileKey, peerKeys, convKeyRow, convKeyCache>>

(* The peer's device inserts a message for this user. *)
ViewPeerInsert ==
  /\ view.pc = "on"
  /\ Len(inserted) < MaxRows
  /\ \E c \in Conversations :
       LET enc == encryptMessage(ViewText, Own.publicKey, PeerPair.privateKey, 1)
           row == [conversation_id |-> c, sender_id |-> Peer,
                   cipher_text |-> enc.payload.cipherText, nonce |-> enc.payload.nonce]
           insertedMessage == InsertedMessage(row, Len(inserted) + 1, view.clock)
       IN /\ inserted' = Append(inserted, insertedMessage)
          /\ view' = [view EXCEPT !.clock = @ + 1,
                        !.events = @ \cup EventsOf(insertedMessage.id, c)]
  /\ UNCHANGED <<convs, ledger, setupVars, load, cipher, vaultVars, flowVars, send, sendNo, outbox, messages,
                 peerProfileKey, peerKeys, sentTexts, convKeyRow, convKeyCache>>

(* The realtime callback after its query of the row: lines 343-375. *)
ViewEventFetched ==
  /\ view.pc = "on"
  /\ \E e \in view.events :
       /\ e.pc = "fetch"
       /\ LET message == JoinedRow(inserted[e.id])
          IN messages' = IF Exists(messages, message.id) THEN messages
                         ELSE Append(messages, message)
       /\ view' = [view EXCEPT !.events = (@ \ {e}) \cup {[id |-> e.id, pc |-> "decrypt"]}]
  /\ UNCHANGED <<convs, ledger, setupVars, load, cipher, vaultVars, flowVars, send, sendNo, outbox, inserted,
                 peerProfileKey, peerKeys, sentTexts, convKeyRow, convKeyCache>>

(* The realtime callback after decryptMessages([message]): lines 377-396. *)
ViewEventDecrypted ==
  /\ view.pc = "on"
  /\ \E e \in view.events :
       /\ e.pc = "decrypt"
       /\ LET decrypted == decryptMessages(<<JoinedRow(inserted[e.id])>>)
          IN messages' = IF ~Exists(messages, e.id) THEN Append(messages, decrypted[1])
                         ELSE Replaced(messages, decrypted[1])
       /\ view' = [view EXCEPT !.events = @ \ {e}]
  /\ store' = IF NoKey(profile) THEN store ELSE VaultRefreshed(store)
  /\ UNCHANGED <<convs, ledger, setupVars, load, cipher, now, idb, engine, api, hist, flowVars, send, sendNo,
                 outbox, inserted, peerProfileKey, peerKeys, sentTexts, convKeyRow,
                 convKeyCache>>

(* What ChatWindow renders for a message: ChatWindow.tsx line 199. *)
Displayed(message) ==
  IF "decrypted_text" \in DOMAIN message THEN message.decrypted_text
  ELSE Sentinel("Descriptografando...")

(* clearAllPeerPublicKeys and clearAllSentMessageTexts:                    *)
(* conversationKeys.ts lines 62-73, sentMessages.ts lines 55-66.           *)
ViewClearCaches ==
  /\ view.pc = "on" /\ ~view.cleared
  /\ messages # <<>>
  /\ peerKeys' = [c \in Conversations |-> Null]
  /\ sentTexts' = <<>>
  /\ view' = [view EXCEPT !.cleared = TRUE,
                !.shown = [id \in {messages[i].id : i \in DOMAIN messages} |->
                             Displayed(messages[CHOOSE i \in DOMAIN messages :
                                                  messages[i].id = id])]]
  /\ UNCHANGED <<convs, ledger, setupVars, load, cipher, vaultVars, flowVars, send, sendNo, outbox, inserted,
                 messages, peerProfileKey, convKeyRow, convKeyCache>>

(* deletePrivateKey at sign-out followed by a new sign-in on this device:  *)
(* the vault no longer holds the private key.                              *)
ViewKeyLost ==
  /\ view.pc = "on"
  /\ StoreHas(store, User)
  /\ view.loads = {} /\ view.events = {} /\ view.replies = {}
  /\ store' = StoreDelete(store, User)
  /\ UNCHANGED <<convs, ledger, view, setupVars, load, cipher, now, idb, engine, api, hist, flowVars, sendVars>>

ViewNext ==
  \/ ViewSelect \/ ViewLoadStart \/ ViewLoadDone
  \/ ViewSendInsert \/ ViewSendReply \/ ViewPeerInsert
  \/ ViewEventFetched \/ ViewEventDecrypted
  \/ ViewClearCaches \/ ViewKeyLost

SpecView == ViewInit /\ [][ViewNext]_vars

(* C25: whatever loads, realtime inserts, reloads and sends have happened, *)
(* the messages list is in ascending created_at order.                     *)
C25_MessagesAscending ==
  \A i \in DOMAIN messages, j \in DOMAIN messages :
    i < j => messages[i].created_at <= messages[j].created_at

(* C26: every entry of the messages list belongs to the selected           *)
(* conversation.                                                           *)
C26_MessagesOfSelectedConversation ==
  \A i \in DOMAIN messages : messages[i].conversation_id = view.conversationId

(* The same once nothing is in flight any more: a load that was overtaken  *)
(* by the load of the next conversation has written the list last.         *)
SettledListOfSelectedConversation ==
  (view.loads = {} /\ view.events = {} /\ view.replies = {}) =>
    C26_MessagesOfSelectedConversation

(* A call of loadMessagesData reaches its setMessages. *)
LoadCompletes == view.pc = "on" /\ view'.loads # view.loads /\ view'.loads \subseteq view.loads

(* A call of sendMessage handles the reply of its insert. *)
SendCompletes == view.pc = "on" /\ view'.replies # view.replies /\ view'.replies \subseteq view.replies

(* What the claim lets a loaded own message display. *)
OwnMessageText(id, cache) ==
  IF id \in DOMAIN cache THEN Text(cache[id]) ELSE Sentinel("[Você enviou uma mensagem]")

(* C28: when sendMessage(text) has succeeded for message i, the sent-text *)
(* cache returns text for i; and an own message that is loaded again       *)
(* displays the cached text for i, or the own-message placeholder when the *)
(* cache has no entry for i.                                               *)
C28_OwnTextFromCache ==
  [][/\ SendCompletes =>
          \A id \in view.replies \ view'.replies :
            id \in DOMAIN sentTexts' /\ sentTexts'[id] = ViewText
     /\ LoadCompletes =>
          \A i \in DOMAIN messages' :
            messages'[i].sender_id = User =>
              Displayed(messages'[i]) = OwnMessageText(messages'[i].id, sentTexts')]_vars

(* C28 holds for every load that finds the private key in the vault. *)
OwnTextWhileKeyHeld ==
  [][(LoadCompletes /\ StoreHas(store, User)) =>
       \A i \in DOMAIN messages' :
         messages'[i].sender_id = User =>
           Displayed(messages'[i]) = OwnMessageText(messages'[i].id, sentTexts')]_vars

(* C29: after the peer-key cache and the sent-text cache were cleared, a   *)
(* reload displays, for every message whose text was displayed before the  *)
(* clear, the same text (the vault still holding the private key).         *)
C29_ClearLosesNothing ==
  [][(LoadCompletes /\ view.cleared /\ StoreHas(store, User)) =>
       \A i \in DOMAIN messages' :
         (messages'[i].id \in DOMAIN view.shown /\ view.shown[messages'[i].id].t = "text")
           => Displayed(messages'[i]) = view.shown[messages'[i].id]]_vars

(* After the clear the peer's messages display as before and sending goes  *)
(* on: the peer's key comes from the profile, not from the cache.          *)
ClearKeepsPeerTexts ==
  [][(LoadCompletes /\ view.cleared /\ StoreHas(store, User)) =>
       \A i \in DOMAIN messages' :
         (/\ messages'[i].sender_id = Peer
          /\ messages'[i].id \in DOMAIN view.shown
          /\ view.shown[messages'[i].id].t = "text")
           => Displayed(messages'[i]) = view.shown[messages'[i].id]]_vars

(***************************************************************************)
(* The local message ledger: lib/storage/localMessages.ts over             *)
(* localStorage.  ledger.items is localStorage restricted to the keys      *)
(* 'chat_messages_<conversationId>'; a value is the JSON text of a list of *)
(* messages.  A message is its id and its created_at, an ISO timestamp     *)
(* given by its time value.  setItem succeeds, throws QuotaExceededError   *)
(* or throws another error, as the browser decides.  ledger.last records   *)
(* the last operation (history).  The cap of 1000 entries of               *)
(* clearOldMessages is scaled down to MaxKept.                             *)
(***************************************************************************)
MaxAdds == 3
MaxKept == 1
Times == 1..3
SetItemOutcomes == {"ok", "QuotaExceededError", "error"}

JSON_stringify(list) == [t |-> "json", of |-> list]
JSON_parse(data) == data.of

(* new Date(created_at).getTime() *)
getTime(created_at) == created_at.ms

LocalMessage(id, ms) == [id |-> id, created_at |-> [t |-> "iso", ms |-> ms]]

LedgerIdle == [pc |-> "on", items |-> <<>>, adds |-> 0, last |-> [op |-> "none"]]

LedgerInit ==
  /\ cipher = CipherIdle /\ VaultOff /\ FlowOff
  /\ send = [pc |-> "off"] /\ sendNo = 0 /\ outbox = {} /\ inserted = <<>>
  /\ messages = <<>> /\ peerProfileKey = Null /\ peerKeys = Null
  /\ sentTexts = <<>> /\ convKeyRow = Null /\ convKeyCache = Null
  /\ load = [pc |-> "off"]
  /\ setup = <<>> /\ conversation_keys = <<>> /\ keyLog = [minted |-> 0, distributed |-> {}]
  /\ view = ViewOff /\ convs = ConvsOff
  /\ ledger = LedgerIdle

(* loadMessages, lines 49-61. *)
loadMessages(items, conversationId) ==
  IF conversationId \notin DOMAIN items THEN <<>>
  ELSE JSON_parse(items[conversationId])

(* messages.sort() left out: the list as push left it. *)
pushedOrder(list) == list

(* messages.sort((a, b) => getTime(a.created_at) - getTime(b.created_at)), *)
(* lines 70-72; Array.prototype.sort is stable.                            *)
RECURSIVE sortMessages(_)
sortMessages(list) ==
  IF list = <<>> THEN <<>>
  ELSE LET least == CHOOSE i \in DOMAIN list :
                      \A j \in DOMAIN list :
                        \/ getTime(list[i].created_at) < getTime(list[j].created_at)
                        \/ /\ getTime(list[i].created_at) = getTime(list[j].created_at)
                           /\ i <= j
           rest == [k \in 1..(Len(list) - 1) |-> IF k < least THEN list[k] ELSE list[k + 1]]
       IN <<list[least]>> \o sortMessages(rest)

(* messages.slice(-n) *)
sliceLast(list, n) ==
  IF Len(list) <= n THEN list ELSE SubSeq(list, Len(list) - n + 1, Len(list))

(* setItem(key, value) that succeeded. *)
setItem(items, key, value) ==
  [k \in DOMAIN items \cup {key} |-> IF k = key THEN value ELSE items[k]]

(* clearOldMessages, lines 91-111: the lists longer than the cap are cut   *)
(* to their last entries, for the keys in reached; a setItem that throws   *)
(* ends the loop.                                                          *)
clearOldMessages(items, reached) ==
  [k \in DOMAIN items |->
     IF k \in reached /\ Len(JSON_parse(items[k])) > MaxKept
     THEN JSON_stringify(sliceLast(JSON_parse(items[k]), MaxKept))
     ELSE items[k]]

(* saveMessages, lines 28-44, with the outcomes of its setItem calls. *)
saveMessages(items, conversationId, list, outcome, reached, retry) ==
  IF outcome = "ok" THEN setItem(items, conversationId, JSON_stringify(list))
  ELSE IF outcome = "QuotaExceededError"
  THEN IF retry = "ok"
       THEN setItem(clearOldMessages(items, reached), conversationId, JSON_stringify(list))
       ELSE clearOldMessages(items, reached)
  ELSE items

(* addMessage, lines 66-74. *)
LedgerAddMessage ==
  /\ ledger.pc = "on" /\ ledger.adds < MaxAdds
  /\ \E c \in Conversations, ms \in Times, outcome \in SetItemOutcomes :
     \E reached \in IF outcome = "QuotaExceededError" THEN SUBSET Conversations ELSE {{}},
        retry \in IF outcome = "QuotaExceededError" THEN SetItemOutcomes ELSE {"none"} :
       LET message == LocalMessage(ledger.adds + 1, ms)
           list == sortMessages(Append(loadMessages(ledger.items, c), message))
           after == saveMessages(ledger.items, c, list, outcome, reached, retry)
       IN ledger' = [ledger EXCEPT !.items = after, !.adds = @ + 1,
                       !.last = [op |-> "addMessage", conversationId |-> c,
                                 message |-> message, outcome |-> outcome,
                                 reached |-> reached, retry |-> retry,
                                 saved |-> c \in DOMAIN after /\ after[c] = JSON_stringify(list)]]
  /\ UNCHANGED <<convs, view, setupVars, load, cipher, vaultVars, flowVars, sendVars>>

(* clearMessages, lines 79-86. *)
LedgerClearMessages ==
  /\ ledger.pc = "on"
  /\ \E c \in DOMAIN ledger.items :
       ledger' = [ledger EXCEPT !.items = [k \in DOMAIN ledger.items \ {c} |-> ledger.items[k]],
                    !.last = [op |-> "clearMessages", conversationId |-> c]]
  /\ UNCHANGED <<convs, view, setupVars, load, cipher, vaultVars, flowVars, sendVars>>

LedgerNext == LedgerAddMessage \/ LedgerClearMessages

SpecLedger == LedgerInit /\ [][LedgerNext]_vars

(* C30: after every addMessage, loadMessages of that conversation returns *)
(* the messages in ascending order of created_at.                          *)
C30_LedgerAscending ==
  (ledger.pc = "on" /\ ledger.last.op = "addMessage") =>
    LET list == IF ledger.last.conversationId \in DOMAIN ledger.items
                THEN ledger.items[ledger.last.conversationId].of ELSE <<>>
    IN \A i \in DOMAIN list, j \in DOMAIN list :
         i < j => list[i].created_at.ms <= list[j].created_at.ms

(* A message older than a stored one was added and saved: it is not the    *)
(* last entry of the list.                                                 *)
C30_Witness ==
  /\ ledger.pc = "on" /\ ledger.last.op = "addMessage" /\ ledger.last.saved
  /\ LET list == ledger.items[ledger.last.conversationId].of
     IN /\ Len(list) >= 2
        /\ list[Len(list)].id # ledger.last.message.id
        /\ list[Len(list)].created_at.ms > ledger.last.message.created_at.ms

(* C31: no conversation of the ledger keeps more entries than the cap.     *)
C31_LedgerWithinCap ==
  ledger.pc = "on" =>
    \A c \in DOMAIN ledger.items : Len(ledger.items[c].of) <= MaxKept

(* An addMessage has run. *)
LedgerAdded == ledger.pc = "on" /\ ledger'.adds # ledger.adds

(* What loadMessages returned for conversation c before and after. *)
StoredBefore(c) == IF c \in DOMAIN ledger.items THEN ledger.items[c].of ELSE <<>>
StoredAfter(c) == IF c \in DOMAIN ledger'.items THEN ledger'.items[c].of ELSE <<>>

(* A write that fails with another error than the quota error is dropped   *)
(* and nothing is trimmed; a write whose retry succeeds is stored.         *)
QuotaPolicyOtherwise ==
  [][LedgerAdded =>
       LET l == ledger'.last
       IN /\ l.outcome = "error" => ledger'.items = ledger.items
          /\ (l.outcome = "QuotaExceededError" /\ l.retry = "ok") => l.saved
          /\ (l.outcome = "QuotaExceededError" /\ l.reached = Conversations) =>
               \A k \in DOMAIN ledger'.items \ {l.conversationId} :
                 Len(ledger'.items[k].of) <= MaxKept]_vars

(* C32: on a quota failure every other conversation is cut to the cap      *)
(* (the writes of the trim succeeding) and the write is retried; when the  *)
(* retry fails too the stored list of the conversation stays as it was; a  *)
(* failure of another kind is not retried and changes nothing.             *)
C32_QuotaPolicy ==
  [][LedgerAdded =>
       LET l == ledger'.last
       IN /\ l.outcome = "error" => ledger'.items = ledger.items
          /\ (l.outcome = "QuotaExceededError" /\ l.retry = "ok") => l.saved
          /\ (l.outcome = "QuotaExceededError" /\ l.reached = Conversations) =>
               \A k \in DOMAIN ledger'.items \ {l.conversationId} :
                 Len(ledger'.items[k].of) <= MaxKept
          /\ (l.outcome = "QuotaExceededError" /\ l.retry # "ok") =>
               StoredAfter(l.conversationId) = StoredBefore(l.conversationId)]_vars

(***************************************************************************)
(* The vault with callers that do not wait for each other: a hook reading  *)
(* the key (getPrivateKey of a load or a send), signOut deleting it        *)
(* (useAuth.ts line 168) and a key setup saving a new one (part_004 line   *)
(* 116) run in separate async functions of the same page.  api counts the  *)
(* calls made; hist[u] is the last explicit save or delete of u that       *)
(* settled.  The engine is healthy.                                        *)
(***************************************************************************)
MaxCalls == 3

OverlapInit ==
  /\ cipher = CipherIdle /\ FlowOff /\ SendOff
  /\ store = <<>> /\ now = 0 /\ idb = <<>> /\ engine = "healthy"
  /\ api = [pc |-> "overlap", calls |-> 0]
  /\ hist = [u \in Users |-> NoWrite]

(* A caller calls savePrivateKey, getPrivateKey or deletePrivateKey. *)
OverlapCall ==
  /\ api.pc = "overlap" /\ api.calls < MaxCalls
  /\ \E fn \in {"savePrivateKey", "getPrivateKey", "deletePrivateKey"},
        u \in Users, k \in PrivateKeys :
       /\ (fn # "savePrivateKey") => k = generateKeyPair(1).privateKey
       /\ idb' = Append(idb, Call(fn, u, IF fn = "savePrivateKey" THEN k ELSE Null, "api"))
  /\ api' = [api EXCEPT !.calls = @ + 1]
  /\ UNCHANGED <<convs, ledger, view, setupVars, load, sendVars, cipher, flowVars, store, now, engine, hist>>

(* The last explicit write of each user after call c settled. *)
ExplicitAfter(h, c) ==
  IF c.by # "api" THEN h
  ELSE IF c.fn = "savePrivateKey"
  THEN [h EXCEPT ![c.userId] = [op |-> "save", privateKey |-> c.privateKey]]
  ELSE IF c.fn = "deletePrivateKey"
  THEN [h EXCEPT ![c.userId] = [op |-> "delete", privateKey |-> Null]]
  ELSE h

(* The oldest pending call settles; a getPrivateKey that found the record  *)
(* starts its refresh (storage.ts lines 79-84) behind the calls already    *)
(* pending.                                                                *)
OverlapStep ==
  /\ api.pc = "overlap"
  /\ idb # <<>>
  /\ LET c == Head(idb) IN
       /\ store' = StoreAfter(store, c, "ok", now)
       /\ idb' = Tail(idb) \o RefreshCalls(store, c, "ok")
       /\ hist' = ExplicitAfter(hist, c)
  /\ UNCHANGED <<convs, ledger, view, setupVars, load, sendVars, cipher, flowVars, now, engine, api>>

OverlapNext == OverlapCall \/ OverlapStep

SpecVaultOverlap == OverlapInit /\ [][OverlapNext]_vars

(* C33: once every pending call has settled, the vault holds for each user *)
(* what the last explicit save or delete left: the key of the save, or no  *)
(* record after a delete.                                                  *)
C33_RefreshKeepsLastWrite ==
  (api.pc = "overlap" /\ idb = <<>>) =>
    \A u \in Users :
      IF hist[u].op = "save"
      THEN StoreHas(store, u) /\ store[u].privateKey = hist[u].privateKey
      ELSE ~StoreHas(store, u)

(* The same for callers that start a call only when nothing is pending:    *)
(* the refresh is then the only pending call when it is made.              *)
RefreshAloneKeepsLastWrite ==
  (api.pc = "idle" /\ idb = <<>>) =>
    \A u \in Users :
      IF hist[u].op = "save"
      THEN StoreHas(store, u) /\ store[u].privateKey = hist[u].privateKey
      ELSE ~StoreHas(store, u)

(***************************************************************************)
(* Claims about interleaved key-setup runs (part_004, ChatWindow).         *)
(***************************************************************************)
(* The message hook of the same page reads the private key               *)
(* (useMessagesSimple.decryptMessages, part_009 line 72; sendMessage, line *)
(* 196): one read at a time, at any moment while the user is signed in.    *)
HookReadsKey ==
  /\ runs # <<>>
  /\ auth.pc = "in"
  /\ \A i \in DOMAIN idb : idb[i].by # "hook"
  /\ idb' = Append(idb, Call("getPrivateKey", User, Null, "hook"))
  /\ UNCHANGED <<convs, ledger, view, setupVars, load, sendVars, cipher, store, now, engine, api, hist,
                 flowVars>>

(* The key-setup flows on the chat page, whose message hook reads the key. *)
SpecSetupOnChatPage == FlowInit("healthy") /\ [][FlowNext \/ HookReadsKey]_vars

(* Every run that started has ended without an error, one of them has      *)
(* published, and nothing is pending in the vault or on the network.       *)
AllRunsSucceeded ==
  /\ runs # <<>>
  /\ \A r \in RunIds : runs[r].pc \in {"idle", "done", "skipped"}
  /\ \E r \in RunIds : runs[r].pc = "done"
  /\ idb = <<>> /\ net = {}

(* The profile's public key and the vault's private key are the halves of  *)
(* one generated pair.                                                     *)
KeyHalvesMatch ==
  /\ StoreHas(store, User)
  /\ \E i \in 1..minted :
       /\ store[User].privateKey = generateKeyPair(i).privateKey
       /\ profile = generateKeyPair(i).publicKey

(* C34: once all key-setup runs have finished successfully, the published *)
(* public key and the stored private key belong to the same pair.          *)
C34_HalvesMatchAfterSetup ==
  AllRunsSucceeded => KeyHalvesMatch

(***************************************************************************)
(* Order of the steps of a key-setup run.                                  *)
(***************************************************************************)
PublishRequests(reqs) == {q \in reqs : q.url = "/api/auth/setup-keys"}

(* The vault holds the private half of the pair whose public half the      *)
(* request carries.                                                        *)
PrivateHalfStored(s, q) ==
  \E i \in 1..MaxKeyPairs :
    /\ q.body = JSONstringify([publicKey |-> generateKeyPair(i).publicKey])
    /\ StoreHas(s, User)
    /\ s[User].privateKey = generateKeyPair(i).privateKey

(* A publish request is sent in the step in which the promise of the run's *)
(* own savePrivateKey settles, and the run had generated that pair.        *)
PublishFollowsOwnSave ==
  [][\A q \in PublishRequests(sent') \ sent :
       /\ idb # <<>>
       /\ Head(idb).fn = "savePrivateKey" /\ Head(idb).by = q.by
       /\ runs[q.by].pc = "awaitSave"
       /\ \E i \in 1..minted :
            /\ Head(idb).privateKey = generateKeyPair(i).privateKey
            /\ q.body = JSONstringify([publicKey |-> generateKeyPair(i).publicKey])]_vars

(* C35: the request that publishes a public key is sent only when the save *)
(* of the matching private key has completed successfully, that is, when   *)
(* the vault holds that private key; a save that failed is followed by no  *)
(* publish request.                                                        *)
C35_PublishOnlyAfterStored ==
  [][\A q \in PublishRequests(sent') \ sent : PrivateHalfStored(store', q)]_vars

(***************************************************************************)
(* What an automatic run may overwrite.                                    *)
(***************************************************************************)
(* The oldest pending vault call is the save of an automatic run. *)
AutoSaveAtHead ==
  /\ idb # <<>>
  /\ Head(idb).fn = "savePrivateKey"
  /\ Head(idb).by \in RunIds
  /\ runs[Head(idb).by].kind = "auto"

(* C36: when the save of an automatic run writes the vault, the vault held *)
(* no private key of the user and the profile had no public key; when the  *)
(* server stores the public key an automatic run sent, the profile had     *)
(* none.                                                                   *)
C36_AutoRunReplacesNothing ==
  [][/\ (AutoSaveAtHead /\ store' # store) =>
          (~StoreHas(store, User) /\ ~hasPublicKey(profile))
     /\ \A q \in net \ net' :
          (q.by \in RunIds /\ runs[q.by].kind = "auto" /\ profile' # profile) =>
             ~hasPublicKey(profile)]_vars

(***************************************************************************)
(* Recovery of a run whose publish failed.  The banner effect (part_004    *)
(* 57-66) schedules an automatic run whenever the loaded profile has no    *)
(* public key, so the automatic run is started again and again; every      *)
(* started step of a run, of the vault and of the server is taken.         *)
(***************************************************************************)
AutoRunStart(r) == RunStart(r) /\ runs'[r].kind = "auto"

SpecSetupFair ==
  /\ FlowInit("healthy")
  /\ [][FlowNext]_vars
  /\ WF_vars(FlowStep)
  /\ WF_vars(ServerHandle)
  /\ \A r \in RunIds :
       /\ WF_vars(AutoRunStart(r))
       /\ WF_vars(RunGenerate(r))
       /\ WF_vars(RunAfterFetch(r))

(* The first run stored its private key, its publish request was refused,  *)
(* and the next run has not started.                                       *)
StoredButNotPublished ==
  /\ runs[RunName(1)].pc = "failed"
  /\ runs[RunName(1)].kp # 0
  /\ runs[RunName(2)].pc = "idle"
  /\ StoreHas(store, User)
  /\ store[User].privateKey = generateKeyPair(runs[RunName(1)].kp).privateKey
  /\ ~hasPublicKey(profile)

(* The profile holds the public half of the private key in the vault. *)
StoredKeyPublished ==
  /\ StoreHas(store, User)
  /\ \E i \in 1..MaxKeyPairs :
       /\ store[User].privateKey = generateKeyPair(i).privateKey
       /\ profile = generateKeyPair(i).publicKey

(* The run after the failed one was started by the user, not by the timer. *)
NextRunNotAutomatic == runs[RunName(2)].kind \in {"force", "button"}

(* C37: when a run has stored the private key and its publish has failed,  *)
(* the automatic run that follows leads to the profile holding the public  *)
(* key that matches the stored private key.                                *)
C37_FailedPublishIsRetried ==
  StoredButNotPublished ~> (StoredKeyPublished \/ NextRunNotAutomatic)

(* C38: the displayed list never holds two entries with the same id,       *)
(* however the append of a send, the realtime callback of the same row and *)
(* the reloads interleave.                                                 *)
C38_NoDuplicateIds ==
  view.pc = "on" =>
    \A i, j \in DOMAIN messages : messages[i].id = messages[j].id => i = j

(***************************************************************************)
(* The result of useMessagesSimple.sendMessage.                            *)
(***************************************************************************)
(* A call of useMessagesSimple.sendMessage returns in this step. *)
PairwiseSendReturns ==
  /\ send'.pc = "idle" /\ send'.mode = "pairwise"
  /\ send.pc # "idle" \/ sendNo' # sendNo

(* This step inserted one row, sent by the user, whose cipher_text and     *)
(* nonce are a box for the recipient and which has no text field.          *)
OneEncryptedRowInserted ==
  /\ Len(inserted') = Len(inserted) + 1
  /\ SubSeq(inserted', 1, Len(inserted)) = inserted
  /\ LET row == inserted'[Len(inserted')]
     IN /\ row.sender_id = User /\ row.conversation_id = Conv
        /\ "decrypted_text" \notin DOMAIN row
        /\ IsBase64(row.cipher_text) /\ from_base64(row.cipher_text).t = "box"
        /\ IsBase64(row.nonce)

MaxCreates == 2
Pair == {User, Peer}
Other(u) == IF u = User THEN Peer ELSE User
ReturnsNull == 0

CreateIdle == [pc |-> "idle", ids |-> {}, id |-> 0, existing |-> {}, created |-> {},
               result |-> ReturnsNull, returned |-> FALSE]

ConvsInit ==
  /\ cipher = CipherIdle /\ VaultOff /\ FlowOff
  /\ send = [pc |-> "off"] /\ sendNo = 0 /\ outbox = {} /\ inserted = <<>>
  /\ messages = <<>> /\ peerProfileKey = Null /\ peerKeys = Null
  /\ sentTexts = <<>> /\ convKeyRow = Null /\ convKeyCache = Null
  /\ load = [pc |-> "off"]
  /\ setup = <<>> /\ conversation_keys = <<>> /\ keyLog = [minted |-> 0, distributed |-> {}]
  /\ view = ViewOff /\ ledger = LedgerOff
  /\ convs = [pc |-> "on", conversations |-> {}, conversation_participants |-> {},
              call |-> [u \in Pair |-> CreateIdle], calls |-> 0]

Participant(c, u) == [conversation_id |-> c, user_id |-> u]

(* The conversations in which both users of the pair are participants. *)
PairConversations(participants, conversations) ==
  {c \in conversations : \A u \in Pair : Participant(c, u) \in participants}

(* gen_random_uuid(): an id no conversation has. *)
NewConversationId(conversations) == Cardinality(conversations) + 1

(* create_conversation_with_participants (SQL lines 135-163): one          *)
(* transaction inserts the conversation and both participants.             *)
create_conversation_with_participants(participants, id, current_user_id, participant_user_id) ==
  participants \cup {Participant(id, current_user_id), Participant(id, participant_user_id)}

CallAt(u, pc) == convs.pc = "on" /\ convs.call[u].pc = pc

Returned(call, result) ==
  [call EXCEPT !.pc = "idle", !.ids = {}, !.id = 0, !.result = result, !.returned = TRUE]

ConvsUnchanged ==
  UNCHANGED <<ledger, view, setupVars, load, cipher, vaultVars, flowVars, sendVars>>

(* Lines 140-154: the call starts and queries the user's participant rows. *)
CreateStart(u) ==
  /\ CallAt(u, "idle")
  /\ convs.calls < MaxCreates
  /\ convs' = [convs EXCEPT !.calls = @ + 1,
                 !.call[u] = [CreateIdle EXCEPT !.pc = "ownRows",
                    !.existing = PairConversations(convs.conversation_participants,
                                                   convs.conversations)]]
  /\ ConvsUnchanged

(* Lines 156-165: the user's rows have answered. *)
CreateOwnRows(u) ==
  /\ CallAt(u, "ownRows")
  /\ \E error \in BOOLEAN :
       LET conversationIds == {p.conversation_id : p \in
                                 {q \in convs.conversation_participants : q.user_id = u}}
       IN convs' = [convs EXCEPT !.call[u] =
                      IF error THEN Returned(@, ReturnsNull)
                      ELSE IF conversationIds = {} THEN [@ EXCEPT !.pc = "rpc"]
                      ELSE [@ EXCEPT !.pc = "otherRow", !.ids = conversationIds]]
  /\ ConvsUnchanged

(* Lines 167-181: the query of the other user's row in those conversations *)
(* has answered; maybeSingle() answers with an error for more than one     *)
(* row.                                                                    *)
CreateOtherRow(u) ==
  /\ CallAt(u, "otherRow")
  /\ \E error \in BOOLEAN :
       LET rows == {p \in convs.conversation_participants :
                      p.conversation_id \in convs.call[u].ids /\ p.user_id = Other(u)}
       IN convs' = [convs EXCEPT !.call[u] =
                      IF error \/ Cardinality(rows) > 1 THEN Returned(@, ReturnsNull)
                      ELSE IF rows = {} THEN [@ EXCEPT !.pc = "rpc", !.ids = {}]
                      ELSE [@ EXCEPT !.pc = "fetchExisting", !.ids = {},
                                     !.id = (CHOOSE p \in rows : TRUE).conversation_id]]
  /\ ConvsUnchanged

(* Lines 184-199: the existing conversation has been fetched and is        *)
(* returned.                                                               *)
CreateFetchExisting(u) ==
  /\ CallAt(u, "fetchExisting")
  /\ \E convError \in BOOLEAN :
       convs' = [convs EXCEPT !.call[u] =
                   Returned(@, IF convError THEN ReturnsNull ELSE @.id)]
  /\ ConvsUnchanged

(* Lines 218-232: supabase.rpc('create_conversation_with_participants');   *)
(* an error of the call goes to the inner catch, the direct method.        *)
CreateRpc(u) ==
  /\ CallAt(u, "rpc")
  /\ \E rpcError \in BOOLEAN :
       LET id == NewConversationId(convs.conversations)
       IN convs' = IF rpcError
                   THEN [convs EXCEPT !.call[u].pc = "insertConversation"]
                   ELSE [convs EXCEPT
                           !.conversations = @ \cup {id},
                           !.conversation_participants =
                              create_conversation_with_participants(@, id, u, Other(u)),
                           !.call[u] = [@ EXCEPT !.pc = "fetchCreated", !.id = id,
                                                 !.created = @ \cup {id}]]
  /\ ConvsUnchanged

(* Lines 236-273: the created conversation has been fetched; an error of   *)
(* the fetch is thrown inside the inner try and goes to the direct method. *)
CreateFetchCreated(u) ==
  /\ CallAt(u, "fetchCreated")
  /\ \E fetchError \in BOOLEAN :
       convs' = [convs EXCEPT !.call[u] =
                   IF fetchError THEN [@ EXCEPT !.pc = "insertConversation", !.id = 0]
                   ELSE Returned(@, @.id)]
  /\ ConvsUnchanged

(* Lines 274-297: the direct method inserts the conversation. *)
CreateInsertConversation(u) ==
  /\ CallAt(u, "insertConversation")
  /\ \E convError \in BOOLEAN :
       LET id == NewConversationId(convs.conversations)
       IN convs' = IF convError
                   THEN [convs EXCEPT !.call[u] = Returned(@, ReturnsNull)]
                   ELSE [convs EXCEPT
                           !.conversations = @ \cup {id},
                           !.call[u] = [@ EXCEPT !.pc = "insertSelf", !.id = id,
                                                 !.created = @ \cup {id}]]
  /\ ConvsUnchanged

(* Lines 304-312: the direct method inserts the user as participant. *)
CreateInsertSelf(u) ==
  /\ CallAt(u, "insertSelf")
  /\ \E error \in BOOLEAN :
       convs' = IF error
                THEN [convs EXCEPT !.call[u] = Returned(@, ReturnsNull)]
                ELSE [convs EXCEPT
                        !.conversation_participants =
                           @ \cup {Participant(convs.call[u].id, u)},
                        !.call[u].pc = "insertOther"]
  /\ ConvsUnchanged

(* Lines 317-351: the direct method inserts the other participant and the  *)
(* call returns the new conversation.                                      *)
CreateInsertOther(u) ==
  /\ CallAt(u, "insertOther")
  /\ \E error \in BOOLEAN :
       convs' = IF error
                THEN [convs EXCEPT !.call[u] = Returned(@, ReturnsNull)]
                ELSE [convs EXCEPT
                        !.conversation_participants =
                           @ \cup {Participant(convs.call[u].id, Other(u))},
                        !.call[u] = Returned(@, @.id)]
  /\ ConvsUnchanged

ConvsNext ==
  \E u \in Pair :
    \/ CreateStart(u) \/ CreateOwnRows(u) \/ CreateOtherRow(u) \/ CreateFetchExisting(u)
    \/ CreateRpc(u) \/ CreateFetchCreated(u)
    \/ CreateInsertConversation(u) \/ CreateInsertSelf(u) \/ CreateInsertOther(u)

SpecConversations == ConvsInit /\ [][ConvsNext]_vars

(* No call of createConversation is in progress. *)
NoCallInProgress == \A u \in Pair : convs.call[u].pc = "idle"

(* At most one conversation has both users of the pair as participants. *)
AtMostOnePairConversation ==
  Cardinality(PairConversations(convs.conversation_participants, convs.conversations)) <= 1

(* Every conversation a finished call created has both participants. *)
CreatedHaveBothParticipants ==
  NoCallInProgress =>
    convs.conversations =
      PairConversations(convs.conversation_participants, convs.conversations)

(* A call that started while a conversation of the pair existed has        *)
(* created nothing and has returned that conversation, or null when one of *)
(* its queries failed.                                                     *)
ExistingIsReturned ==
  \A u \in Pair :
    LET call == convs.call[u]
    IN (call.returned /\ call.existing # {}) =>
         (call.created = {} /\ call.result \in call.existing \cup {ReturnsNull})

(* C40: however the calls of createConversation of two users for each      *)
(* other interleave, at most one conversation exists with the two as        *)
(* participants, every created conversation has both as participants, and  *)
(* a call made while one exists returns it and creates nothing.            *)
C40_OneConversationPerPair ==
  convs.pc = "on" =>
    /\ AtMostOnePairConversation
    /\ CreatedHaveBothParticipants
    /\ ExistingIsReturned

=============================================================================
